---- MODULE Spec2Model ----
(***************************************************************************)
(* Workspace session registry and sandboxed filesystem operations of       *)
(* agent/workspace.py.                                                     *)
(*                                                                         *)
(* A path string is the sequence of its "/"-separated segments             *)
(* ("a/../b" is <<"a", "..", "b">>, "/a" is <<"", "a">>, "" is <<"">>).    *)
(* The segment " " stands for a run of whitespace, "C:" for a drive        *)
(* qualifier.  An absolute filesystem path is the sequence of its names    *)
(* below the filesystem root (<<>> is the filesystem root itself).         *)
(* A text is a short sequence of characters followed by `fill` ordinary    *)
(* characters, so that lengths around MAX_EDITABLE_FILE_CHARS are          *)
(* representable.                                                          *)
(***************************************************************************)
EXTENDS Integers, Sequences, FiniteSets, TLC

VARIABLES
    os,        \* "posix" or "nt": the platform pathlib and text I/O run on
    fs,        \* the disk: absolute path -> node (directory or file)
    sessions,  \* _SESSIONS: workspace id -> WorkspaceSession
    active,    \* _ACTIVE_WORKSPACE_ID of the calling context
    clock,     \* the reading _utc_now() returns, in seconds
    pc,        \* the caller: "idle", or "returned" holding a result
    nops,      \* file operations issued so far
    last,      \* the last call: arguments, outcome, and the state before it
    ctx,       \* the workspace_context blocks that are open, innermost last
    lock,      \* the thread holding _SESSIONS_LOCK, if any
    thr        \* the threads calling into the registry: position and locals

vars == <<os, fs, sessions, active, clock, pc, nops, last, ctx, lock, thr>>

----------------------------------------------------------------------------
(* Program constants *)

MAX_EDITABLE_FILE_CHARS == 400000
SESSION_TTL_SECONDS == 3600
DEFAULT_WORKSPACE_ID == "default"

(* Bounds of the model *)

MaxSegs == 2        \* segments of a path argument
MaxTextLen == 1     \* explicit characters of a content argument
MaxTicks == 1       \* clock advances, each of SESSION_TTL_SECONDS
MaxFileOps == 1     \* file operations per behaviour
MaxNesting == 2     \* workspace_context blocks open at once
MaxToolOps == 2     \* tool calls of a workflow run

NoId == ""                      \* workspace_id=None (or blank)
OtherId == "b"                  \* a generated session id
BadId == "b!"                   \* an id outside [A-Za-z0-9_-]{1,128}
WORKSPACE_ID_PATTERN == {DEFAULT_WORKSPACE_ID, OtherId, "a"}

WORKSPACE_BASE_DIR == <<"ws">>
WORKSPACE_ROOT == WORKSPACE_BASE_DIR \o <<DEFAULT_WORKSPACE_ID>>

Platforms == {"posix", "nt"}
SegAlphabet == {"", " ", ".", "..", "a", "b", "C:"}
Chars == {"x", "CR", "LF"}

(* Path strings of up to MaxSegs segments.  Whitespace and a drive          *)
(* qualifier are drawn at the start only, and no UNC prefix                 *)
(* ("//host/share") is drawn.                                               *)
PathStrings ==
    { s \in UNION { [1..n -> SegAlphabet] : n \in 1..MaxSegs } :
        /\ \A i \in 2..Len(s) : s[i] \notin {"C:", " "}
        /\ ~(Len(s) >= 3 /\ s[1] \in {"", " "} /\ s[2] = "") }

\* Plain path strings: names only
PlainPaths == { s \in PathStrings : \A i \in 1..Len(s) : s[i] \in {"a", "b"} }

\* Argument pairs of rename_path: any path string in one place, a plain one
\* in the other
PathPairs ==
    { pq \in PathStrings \X PathStrings : pq[1] \in PlainPaths \/ pq[2] \in PlainPaths }

Texts == UNION { [1..n -> Chars] : n \in 0..MaxTextLen }
Fills == {0, MAX_EDITABLE_FILE_CHARS}
Contents == [text : Texts, fill : Fills]
WsArgs == {NoId, OtherId}
WsArgsAny == {NoId, OtherId, BadId}

\* a workspace_id of whitespace only
BlankId == " "
BlankIds == {NoId, BlankId}
WsArgsSession == {NoId, BlankId, DEFAULT_WORKSPACE_ID, OtherId, BadId}

\* renewal windows a caller may ask for, and the time between two readings
\* of the clock
ShortTtl == SESSION_TTL_SECONDS \div 4
TtlArgs == {ShortTtl, SESSION_TTL_SECONDS}
ElapseSeconds == SESSION_TTL_SECONDS \div 2

\* threads
Threads == {"t1", "t2"}
NoThread == "none"

----------------------------------------------------------------------------
(* Sequences *)

\* LET v == ... IN Body, with v's value computed once
With(v, Body(_)) == Body(v)

IsPrefix(q, p) == Len(q) <= Len(p) /\ SubSeq(p, 1, Len(q)) = q
Parent(p) == SubSeq(p, 1, Len(p) - 1)
Prefixes(p) == { SubSeq(p, 1, k) : k \in 1..Len(p) }

RECURSIVE Filter(_, _)
Filter(s, drop) ==
    IF s = <<>> THEN <<>>
    ELSE IF Head(s) \in drop THEN Filter(Tail(s), drop)
    ELSE <<Head(s)>> \o Filter(Tail(s), drop)

----------------------------------------------------------------------------
(* pathlib *)

\* str.strip(): whitespace at the two ends of the string goes
Strip(s) ==
    [i \in 1..Len(s) |-> IF (i = 1 \/ i = Len(s)) /\ s[i] = " " THEN "" ELSE s[i]]

\* PurePath.drive
Drive(s) == IF os = "nt" /\ s[1] = "C:" THEN "C:" ELSE ""

\* PurePath.root is non-empty
Rooted(s) ==
    IF Drive(s) # "" THEN Len(s) >= 2
    ELSE Len(s) >= 2 /\ s[1] = ""

\* PurePath.is_absolute()
IsAbsolute(s) == IF os = "nt" THEN Drive(s) # "" /\ Rooted(s) ELSE Rooted(s)

\* PurePath.parts without the anchor: empty and "." segments are dropped
Parts(s) == Filter(IF Drive(s) # "" THEN Tail(s) ELSE s, {"", "."})

\* root / relative
JoinPath(root, s) == IF Rooted(s) THEN Parts(s) ELSE root \o Parts(s)

\* Path.resolve() replaced by a normalisation that drops ".." segments
ResolvePathDropDotDot(p) == Filter(p, {".."})

\* Path.resolve() on a disk without symlinks: ".." steps to the parent,
\* and the parent of the filesystem root is the filesystem root
RECURSIVE Collapse(_, _)
Collapse(done, rest) ==
    IF rest = <<>> THEN done
    ELSE IF Head(rest) = ".."
         THEN Collapse(IF done = <<>> THEN <<>> ELSE Parent(done), Tail(rest))
         ELSE Collapse(done \o <<Head(rest)>>, Tail(rest))

\* Path.resolve()
ResolvePath(p) == Collapse(<<>>, p)

\* _relative_path: path.relative_to(root).as_posix(); <<>> is "."
RelativePath(p, root) == SubSeq(p, Len(root) + 1, Len(p))

----------------------------------------------------------------------------
(* The disk *)

DirNode == [kind |-> "dir", bytes |-> <<>>, fill |-> 0]
FileNode(bytes, fill) == [kind |-> "file", bytes |-> bytes, fill |-> fill]

Exists(f, p) == p = <<>> \/ p \in DOMAIN f
IsDir(f, p) == p = <<>> \/ (p \in DOMAIN f /\ f[p].kind = "dir")
IsFile(f, p) == p \in DOMAIN f /\ f[p].kind = "file"
HasChildren(f, p) == \E q \in DOMAIN f : q # p /\ IsPrefix(p, q)

\* shutil.rmtree(p) / rmdir / unlink: p and everything below it goes
RemoveTree(f, p) == [q \in { q \in DOMAIN f : ~IsPrefix(p, q) } |-> f[q]]

\* Path.mkdir(parents=True, exist_ok=True): fails when p or an ancestor of
\* it is a regular file, and then leaves the disk as it was
MkdirFails(f, p) == \E q \in Prefixes(p) : IsFile(f, q)
Mkdir(f, p) ==
    IF MkdirFails(f, p) THEN f
    ELSE [q \in DOMAIN f \cup Prefixes(p) |-> IF q \in DOMAIN f THEN f[q] ELSE DirNode]

\* Path.write_text(content, encoding="utf-8") opens in text mode with
\* newline=None: "\n" is written as os.linesep
RECURSIVE Encode(_)
Encode(text) ==
    IF text = <<>> THEN <<>>
    ELSE (IF Head(text) = "LF" /\ os = "nt" THEN <<"CR", "LF">> ELSE <<Head(text)>>)
         \o Encode(Tail(text))

\* the bytes are valid UTF-8
ValidUtf8(bytes) == \A i \in 1..Len(bytes) : bytes[i] # "FF"

\* Path.read_text(encoding="utf-8"): universal newlines, "\r\n" and "\r"
\* are read as "\n"
RECURSIVE Decode(_)
Decode(bytes) ==
    IF bytes = <<>> THEN <<>>
    ELSE IF Head(bytes) = "CR"
         THEN <<"LF">> \o Decode(IF Len(bytes) >= 2 /\ bytes[2] = "LF"
                                  THEN Tail(Tail(bytes)) ELSE Tail(bytes))
         ELSE <<Head(bytes)>> \o Decode(Tail(bytes))

ContentLen(c) == Len(c.text) + c.fill

\* as_posix() strings in ascending order: names compare by character, and
\* a path sorts before the paths it is a prefix of
Rank(name) ==
    CASE name = "A" -> 1 [] name = "B" -> 2 [] name = "C:" -> 3
      [] name = "a" -> 4 [] name = "b" -> 5 [] name = "default" -> 6
      [] name = "generated_project" -> 7 [] name = "ws" -> 8 [] OTHER -> 0

RECURSIVE PathLess(_, _)
PathLess(p, q) ==
    IF p = <<>> THEN q # <<>>
    ELSE IF q = <<>> THEN FALSE
    ELSE IF Head(p) = Head(q) THEN PathLess(Tail(p), Tail(q))
    ELSE Rank(Head(p)) < Rank(Head(q))

RECURSIVE Sorted(_)
Sorted(S) ==
    IF S = {} THEN <<>>
    ELSE LET m == CHOOSE x \in S : \A y \in S \ {x} : PathLess(x, y)
         IN <<m>> \o Sorted(S \ {m})

----------------------------------------------------------------------------
(* Session registry.  A state of the program is st = [fs, sessions]; every  *)
(* operation below returns the state it leaves, with err = "" on success.   *)

State(f, ss) == [fs |-> f, sessions |-> ss]

\* _normalize_workspace_id without the pattern match
NormalizeWorkspaceIdUnchecked(w) ==
    [err |-> "", id |-> IF w \in BlankIds THEN DEFAULT_WORKSPACE_ID ELSE w]

\* _normalize_workspace_id: [err, id]
NormalizeWorkspaceId(w) ==
    IF w \in BlankIds THEN [err |-> "", id |-> DEFAULT_WORKSPACE_ID]
    ELSE IF w \notin WORKSPACE_ID_PATTERN THEN [err |-> "Validation", id |-> w]
    ELSE [err |-> "", id |-> w]

\* _effective_workspace_id consulting the binding before the argument
EffectiveWorkspaceIdContextFirst(explicit, context) ==
    IF context \notin BlankIds THEN NormalizeWorkspaceId(context)
    ELSE IF explicit \notin BlankIds THEN NormalizeWorkspaceId(explicit)
    ELSE [err |-> "", id |-> DEFAULT_WORKSPACE_ID]

\* _effective_workspace_id: explicit id, else the context's, else the default
EffectiveWorkspaceId(explicit, context) ==
    IF explicit \notin BlankIds THEN NormalizeWorkspaceId(explicit)
    ELSE IF context \notin BlankIds THEN NormalizeWorkspaceId(context)
    ELSE [err |-> "", id |-> DEFAULT_WORKSPACE_ID]

\* workspace_base_dir: creates the base directory
WorkspaceBaseDir(f) == Mkdir(f, WORKSPACE_BASE_DIR)

\* _session_path: the path, and the disk after computing it
SessionPath(id) ==
    IF id = DEFAULT_WORKSPACE_ID THEN WORKSPACE_ROOT ELSE WORKSPACE_BASE_DIR \o <<id>>
SessionPathDisk(f, id) ==
    IF id = DEFAULT_WORKSPACE_ID THEN f ELSE WorkspaceBaseDir(f)

\* _session_expired with the boundary reading taken as not yet expired
SessionExpiredAfter(session, now) == now > session.expires_at

\* _session_expired
SessionExpired(session, now) == now >= session.expires_at

\* _new_session
NewSession(id, ttl, now) ==
    [workspace_id |-> id, path |-> SessionPath(id), last_accessed |-> now,
     expires_at |-> now + ttl, ttl_seconds |-> ttl]

Drop(ss, id) == [k \in DOMAIN ss \ {id} |-> ss[k]]
Put(ss, id, session) == [k \in DOMAIN ss \cup {id} |-> IF k = id THEN session ELSE ss[k]]

\* delete_session that forgets the entry and leaves the directory on disk
DeleteSessionStateKeepsDisk(st, id) ==
    [fs |-> st.fs,
     sessions |-> IF id \in DOMAIN st.sessions THEN Drop(st.sessions, id) ELSE st.sessions,
     deleted |-> Exists(st.fs, SessionPath(id))]

\* delete_session for a normalized id: [fs, sessions, deleted]
DeleteSessionState(st, id) ==
    LET had    == id \in DOMAIN st.sessions
        target == IF had THEN st.sessions[id].path ELSE SessionPath(id)
        f1     == IF had THEN st.fs ELSE SessionPathDisk(st.fs, id)
    IN [fs |-> IF IsDir(f1, target) THEN RemoveTree(f1, target) ELSE f1,
        sessions |-> IF had THEN Drop(st.sessions, id) ELSE st.sessions,
        deleted |-> Exists(f1, target)]

\* cleanup_expired_sessions: the ids swept, and the state left
ExpiredIds(ss, now) == { id \in DOMAIN ss : SessionExpired(ss[id], now) }

RECURSIVE DeleteAll(_, _)
DeleteAll(st, ids) ==
    IF ids = {} THEN st
    ELSE LET id == CHOOSE x \in ids : TRUE
             d  == DeleteSessionState(st, id)
         IN DeleteAll(State(d.fs, d.sessions), ids \ {id})

CleanupExpiredSessions(st, now) == DeleteAll(st, ExpiredIds(st.sessions, now))

\* ensure_session: [fs, sessions, err, id]
EnsureSessionState(st, w, ttl, now) ==
    LET n == EffectiveWorkspaceId(w, active)
    IN IF n.err # "" THEN [fs |-> st.fs, sessions |-> st.sessions, err |-> n.err, id |-> n.id]
       ELSE
       LET id       == n.id
           expected == SessionPath(id)
           f1       == SessionPathDisk(st.fs, id)
           stale    == id \in DOMAIN st.sessions /\ st.sessions[id].path # expected
           ss1      == IF stale THEN Drop(st.sessions, id) ELSE st.sessions
           present  == id \in DOMAIN ss1
           live     == present /\ ~SessionExpired(ss1[id], now)
           d        == IF present /\ ~live
                       THEN DeleteSessionState(State(f1, ss1), id)
                       ELSE [fs |-> f1, sessions |-> ss1, deleted |-> FALSE]
           f2       == IF live THEN d.fs ELSE SessionPathDisk(d.fs, id)
           renewed  == Put(ss1, id,
                           [ss1[id] EXCEPT !.last_accessed = now,
                                           !.expires_at = now + ss1[id].ttl_seconds,
                                           !.path = expected])
       IN IF MkdirFails(f2, expected)
          THEN [fs |-> f2, sessions |-> IF live THEN renewed ELSE d.sessions,
                err |-> "OSError", id |-> id]
          ELSE [fs |-> Mkdir(f2, expected),
                sessions |-> IF live THEN renewed
                             ELSE Put(d.sessions, id, NewSession(id, ttl, now)),
                err |-> "", id |-> id]

\* resolve_workspace_session / workspace_root: sweep, then ensure
ResolveWorkspaceSession(st, w, now) ==
    EnsureSessionState(CleanupExpiredSessions(st, now), w, SESSION_TTL_SECONDS, now)

\* touch_session: [fs, sessions, err, id]; the id is normalized without
\* looking at the binding, the session ensured, then renewed
TouchSessionState(st, w, has_ttl, ttl, now) ==
    LET n == NormalizeWorkspaceId(w)
    IN IF n.err # "" THEN [fs |-> st.fs, sessions |-> st.sessions, err |-> n.err, id |-> n.id]
       ELSE
       With(EnsureSessionState(st, n.id, SESSION_TTL_SECONDS, now), LAMBDA e :
           IF e.err # "" THEN e
           ELSE LET session == e.sessions[n.id]
                    window  == IF has_ttl THEN ttl ELSE session.ttl_seconds
                IN [fs |-> e.fs,
                    sessions |-> Put(e.sessions, n.id,
                                     [session EXCEPT !.last_accessed = now,
                                                     !.ttl_seconds = window,
                                                     !.expires_at = now + window]),
                    err |-> "", id |-> n.id])

\* a reset that clears the binding instead of restoring the token's value
ResetBindingToNone(token) == NoId

\* ContextVar.reset(token)
ResetBinding(token) == token.old_value

----------------------------------------------------------------------------
(* Path Guard *)

\* _coerce_relative_path: [err, msg, value]
CoerceRelativePath(p, allow_root) ==
    LET value == Strip(p)
    IN IF value = <<"">> \/ value = <<".">>
       THEN IF allow_root THEN [err |-> "", msg |-> "", value |-> <<".">>]
            ELSE [err |-> "Validation", msg |-> "empty", value |-> value]
       ELSE IF IsAbsolute(value)
       THEN [err |-> "Validation", msg |-> "absolute", value |-> value]
       ELSE IF Drive(value) # ""
       THEN [err |-> "Validation", msg |-> "drive", value |-> value]
       ELSE [err |-> "", msg |-> "", value |-> value]

\* An outcome: the state left, the error raised ("" for none) and why, the
\* session root and resolved path in use, and the value returned
Outcome(f, ss, err, msg, root, path, ret, files, text) ==
    [fs |-> f, sessions |-> ss, err |-> err, msg |-> msg, root |-> root,
     path |-> path, ret |-> ret, files |-> files, text |-> text]

NoText == [text |-> <<>>, fill |-> 0]
Raise(f, ss, err, msg) == Outcome(f, ss, err, msg, <<>>, <<>>, <<>>, <<>>, NoText)
RaiseAt(r, err, msg) == Outcome(r.fs, r.sessions, err, msg, r.root, r.path, <<>>, <<>>, NoText)
RaiseOn(f, r, err, msg) == Outcome(f, r.sessions, err, msg, r.root, r.path, <<>>, <<>>, NoText)

\* resolve_workspace_path with the containment test made on the candidate as
\* joined, before ".." is collapsed
ResolveWorkspacePathUnresolved(st, p, allow_root, w, now) ==
    With(ResolveWorkspaceSession(st, w, now), LAMBDA s :
        IF s.err # "" THEN Raise(s.fs, s.sessions, s.err, "workspace_id")
        ELSE
        LET root      == s.sessions[s.id].path
            c         == CoerceRelativePath(p, allow_root)
            candidate == IF c.value = <<".">> THEN root ELSE JoinPath(root, c.value)
            resolved  == ResolvePath(candidate)
        IN IF c.err # "" THEN Raise(s.fs, s.sessions, c.err, c.msg)
           ELSE IF ~IsPrefix(root, candidate)
           THEN Raise(s.fs, s.sessions, "Validation", "escape")
           ELSE Outcome(s.fs, s.sessions, "", "", root, resolved, resolved, <<>>, NoText))

\* resolve_workspace_path with the containment test made against the base
\* directory of all sessions
ResolveWorkspacePathInBase(st, p, allow_root, w, now) ==
    With(ResolveWorkspaceSession(st, w, now), LAMBDA s :
        IF s.err # "" THEN Raise(s.fs, s.sessions, s.err, "workspace_id")
        ELSE
        LET root      == s.sessions[s.id].path
            c         == CoerceRelativePath(p, allow_root)
            candidate == IF c.value = <<".">> THEN root ELSE JoinPath(root, c.value)
            resolved  == ResolvePath(candidate)
        IN IF c.err # "" THEN Raise(s.fs, s.sessions, c.err, c.msg)
           ELSE IF ~IsPrefix(WORKSPACE_BASE_DIR, resolved)
           THEN Raise(s.fs, s.sessions, "Validation", "escape")
           ELSE Outcome(s.fs, s.sessions, "", "", root, resolved, resolved, <<>>, NoText))

\* resolve_workspace_path: the session is resolved first, then the path
ResolveWorkspacePath(st, p, allow_root, w, now) ==
    With(ResolveWorkspaceSession(st, w, now), LAMBDA s :
        IF s.err # "" THEN Raise(s.fs, s.sessions, s.err, "workspace_id")
        ELSE
        LET root      == s.sessions[s.id].path
            c         == CoerceRelativePath(p, allow_root)
            candidate == IF c.value = <<".">> THEN root ELSE JoinPath(root, c.value)
            resolved  == ResolvePath(candidate)
        IN IF c.err # "" THEN Raise(s.fs, s.sessions, c.err, c.msg)
           ELSE IF ~IsPrefix(root, resolved)
           THEN Raise(s.fs, s.sessions, "Validation", "escape")
           ELSE Outcome(s.fs, s.sessions, "", "", root, resolved, resolved, <<>>, NoText))

----------------------------------------------------------------------------
(* File and directory operations *)

\* read_text_file decoding with errors replaced instead of raised
ReadTextFileLenient(st, p, w, now) ==
    With(ResolveWorkspacePath(st, p, FALSE, w, now), LAMBDA r :
        IF r.err # "" THEN r
        ELSE IF ~IsFile(r.fs, r.path) THEN RaiseAt(r, "NotFound", "missing")
        ELSE Outcome(r.fs, r.sessions, "", "", r.root, r.path, <<>>, <<>>,
                     [text |-> Decode(r.fs[r.path].bytes), fill |-> r.fs[r.path].fill]))

\* read_text_file
ReadTextFile(st, p, w, now) ==
    With(ResolveWorkspacePath(st, p, FALSE, w, now), LAMBDA r :
        IF r.err # "" THEN r
        ELSE IF ~IsFile(r.fs, r.path) THEN RaiseAt(r, "NotFound", "missing")
        ELSE IF ~ValidUtf8(r.fs[r.path].bytes) THEN RaiseAt(r, "Binary", "binary")
        ELSE Outcome(r.fs, r.sessions, "", "", r.root, r.path, <<>>, <<>>,
                     [text |-> Decode(r.fs[r.path].bytes), fill |-> r.fs[r.path].fill]))

\* write_text_file refusing content of exactly the cap
WriteTextFileCapInclusive(st, p, c, w, now) ==
    IF ContentLen(c) >= MAX_EDITABLE_FILE_CHARS
    THEN Raise(st.fs, st.sessions, "Validation", "too_long")
    ELSE
    With(ResolveWorkspaceSession(st, w, now), LAMBDA s0 :
        IF s0.err # "" THEN Raise(s0.fs, s0.sessions, s0.err, "workspace_id")
        ELSE
        With(ResolveWorkspacePath(State(s0.fs, s0.sessions), p, FALSE, w, now), LAMBDA r :
            LET f1 == Mkdir(r.fs, Parent(r.path))
            IN IF r.err # "" THEN r
               ELSE IF MkdirFails(r.fs, Parent(r.path)) THEN RaiseAt(r, "OSError", "mkdir")
               ELSE IF IsDir(f1, r.path) THEN RaiseOn(f1, r, "OSError", "is_a_directory")
               ELSE Outcome([q \in DOMAIN f1 \cup {r.path} |->
                                IF q = r.path THEN FileNode(Encode(c.text), c.fill)
                                ELSE f1[q]],
                            r.sessions, "", "", r.root, r.path,
                            RelativePath(r.path, r.root), <<>>, NoText)))

\* write_text_file
WriteTextFile(st, p, c, w, now) ==
    IF ContentLen(c) > MAX_EDITABLE_FILE_CHARS
    THEN Raise(st.fs, st.sessions, "Validation", "too_long")
    ELSE
    With(ResolveWorkspaceSession(st, w, now), LAMBDA s0 :
        IF s0.err # "" THEN Raise(s0.fs, s0.sessions, s0.err, "workspace_id")
        ELSE
        With(ResolveWorkspacePath(State(s0.fs, s0.sessions), p, FALSE, w, now), LAMBDA r :
            LET f1 == Mkdir(r.fs, Parent(r.path))
            IN IF r.err # "" THEN r
               ELSE IF MkdirFails(r.fs, Parent(r.path)) THEN RaiseAt(r, "OSError", "mkdir")
               ELSE IF IsDir(f1, r.path) THEN RaiseOn(f1, r, "OSError", "is_a_directory")
               ELSE Outcome([q \in DOMAIN f1 \cup {r.path} |->
                                IF q = r.path THEN FileNode(Encode(c.text), c.fill)
                                ELSE f1[q]],
                            r.sessions, "", "", r.root, r.path,
                            RelativePath(r.path, r.root), <<>>, NoText)))

\* create_folder that refuses a directory already there (mkdir without
\* exist_ok)
CreateFolderExclusive(st, p, w, now) ==
    With(ResolveWorkspaceSession(st, w, now), LAMBDA s0 :
        IF s0.err # "" THEN Raise(s0.fs, s0.sessions, s0.err, "workspace_id")
        ELSE
        With(ResolveWorkspacePath(State(s0.fs, s0.sessions), p, FALSE, w, now), LAMBDA r :
            IF r.err # "" THEN r
            ELSE IF MkdirFails(r.fs, r.path) \/ Exists(r.fs, r.path)
            THEN RaiseAt(r, "OSError", "mkdir")
            ELSE Outcome(Mkdir(r.fs, r.path), r.sessions, "", "", r.root, r.path,
                         RelativePath(r.path, r.root), <<>>, NoText)))

\* create_folder
CreateFolder(st, p, w, now) ==
    With(ResolveWorkspaceSession(st, w, now), LAMBDA s0 :
        IF s0.err # "" THEN Raise(s0.fs, s0.sessions, s0.err, "workspace_id")
        ELSE
        With(ResolveWorkspacePath(State(s0.fs, s0.sessions), p, FALSE, w, now), LAMBDA r :
            IF r.err # "" THEN r
            ELSE IF MkdirFails(r.fs, r.path) THEN RaiseAt(r, "OSError", "mkdir")
            ELSE Outcome(Mkdir(r.fs, r.path), r.sessions, "", "", r.root, r.path,
                         RelativePath(r.path, r.root), <<>>, NoText)))

\* delete_path that removes a non-empty directory whatever the flag
DeletePathIgnoresFlag(st, p, recursive, w, now) ==
    With(ResolveWorkspacePath(st, p, FALSE, w, now), LAMBDA r :
        IF r.err # "" THEN r
        ELSE IF ~Exists(r.fs, r.path) THEN RaiseAt(r, "NotFound", "missing")
        ELSE Outcome(RemoveTree(r.fs, r.path), r.sessions, "", "", r.root, r.path,
                     Strip(p), <<>>, NoText))

\* delete_path: returns the stripped argument
DeletePath(st, p, recursive, w, now) ==
    With(ResolveWorkspacePath(st, p, FALSE, w, now), LAMBDA r :
        IF r.err # "" THEN r
        ELSE IF ~Exists(r.fs, r.path) THEN RaiseAt(r, "NotFound", "missing")
        ELSE IF IsDir(r.fs, r.path) /\ HasChildren(r.fs, r.path) /\ ~recursive
        THEN RaiseAt(r, "Conflict", "not_empty")
        ELSE Outcome(RemoveTree(r.fs, r.path), r.sessions, "", "", r.root, r.path,
                     Strip(p), <<>>, NoText))

\* Path.rename(target) once target is known not to exist: everything at and
\* below src moves to dst
MoveTree(f, src, dst) ==
    [q \in { q \in DOMAIN f : ~IsPrefix(src, q) }
           \cup { dst \o RelativePath(q, src) : q \in { x \in DOMAIN f : IsPrefix(src, x) } } |->
        IF IsPrefix(dst, q) THEN f[src \o RelativePath(q, dst)] ELSE f[q]]

\* rename_path that replaces an existing destination whatever the flag
RenamePathAlwaysOverwrites(st, from, to, overwrite, w, now) ==
    With(ResolveWorkspaceSession(st, w, now), LAMBDA s0 :
      IF s0.err # "" THEN Raise(s0.fs, s0.sessions, s0.err, "workspace_id")
      ELSE
      With(ResolveWorkspacePath(State(s0.fs, s0.sessions), from, FALSE, w, now), LAMBDA rs :
        IF rs.err # "" THEN rs
        ELSE
        With(ResolveWorkspacePath(State(rs.fs, rs.sessions), to, FALSE, w, now), LAMBDA rt :
          IF rt.err # "" THEN rt
          ELSE
          LET source == rs.path
              target == rt.path
              f1 == IF Exists(rt.fs, target) THEN RemoveTree(rt.fs, target) ELSE rt.fs
              f2 == Mkdir(f1, Parent(target))
          IN IF ~Exists(rt.fs, source) THEN RaiseAt(rt, "NotFound", "missing")
             ELSE IF MkdirFails(f1, Parent(target)) THEN RaiseOn(f1, rt, "OSError", "mkdir")
             ELSE IF ~Exists(f2, source) THEN RaiseOn(f2, rt, "NotFound", "rename")
             ELSE IF IsPrefix(source, target) THEN RaiseOn(f2, rt, "OSError", "rename")
             ELSE Outcome(MoveTree(f2, source, target), rt.sessions, "", "", rt.root,
                          target, RelativePath(target, rt.root), <<>>, NoText))))

\* rename_path
RenamePath(st, from, to, overwrite, w, now) ==
    With(ResolveWorkspaceSession(st, w, now), LAMBDA s0 :
      IF s0.err # "" THEN Raise(s0.fs, s0.sessions, s0.err, "workspace_id")
      ELSE
      With(ResolveWorkspacePath(State(s0.fs, s0.sessions), from, FALSE, w, now), LAMBDA rs :
        IF rs.err # "" THEN rs
        ELSE
        With(ResolveWorkspacePath(State(rs.fs, rs.sessions), to, FALSE, w, now), LAMBDA rt :
          IF rt.err # "" THEN rt
          ELSE
          LET source == rs.path
              target == rt.path
              f1 == IF Exists(rt.fs, target) THEN RemoveTree(rt.fs, target) ELSE rt.fs
              f2 == Mkdir(f1, Parent(target))
          IN IF ~Exists(rt.fs, source) THEN RaiseAt(rt, "NotFound", "missing")
             ELSE IF Exists(rt.fs, target) /\ ~overwrite
             THEN RaiseAt(rt, "Conflict", "exists")
             ELSE IF MkdirFails(f1, Parent(target)) THEN RaiseOn(f1, rt, "OSError", "mkdir")
             ELSE IF ~Exists(f2, source) THEN RaiseOn(f2, rt, "NotFound", "rename")
             ELSE IF IsPrefix(source, target) THEN RaiseOn(f2, rt, "OSError", "rename")
             ELSE Outcome(MoveTree(f2, source, target), rt.sessions, "", "", rt.root,
                          target, RelativePath(target, rt.root), <<>>, NoText))))

\* list_relative_files
ListRelativeFiles(st, dir, w, now) ==
    With(ResolveWorkspacePath(st, dir, TRUE, w, now), LAMBDA r :
        IF r.err # "" THEN r
        ELSE IF ~Exists(r.fs, r.path) THEN RaiseAt(r, "NotFound", "missing")
        ELSE IF ~IsDir(r.fs, r.path) THEN RaiseAt(r, "Validation", "not_a_directory")
        ELSE
        With(ResolveWorkspaceSession(State(r.fs, r.sessions), w, now), LAMBDA s1 :
            LET root == s1.sessions[s1.id].path
            IN Outcome(s1.fs, s1.sessions, "", "", root, r.path, <<>>,
                       Sorted({ RelativePath(q, root) :
                                q \in { x \in DOMAIN s1.fs :
                                          x # r.path /\ IsPrefix(r.path, x) /\ IsFile(s1.fs, x) } }),
                       NoText)))

----------------------------------------------------------------------------
(* Listings and the archive *)

\* str.lower() of a name
Lower(name) == CASE name = "A" -> "a" [] name = "B" -> "b" [] OTHER -> name

\* the entries of a directory: Path.iterdir()
Entries(f, dir) == { q \in DOMAIN f : Len(q) = Len(dir) + 1 /\ IsPrefix(dir, q) }

\* the sort key without lower(): names compared as they are
EntryLessCaseSensitive(f, p, q) ==
    IF IsFile(f, p) # IsFile(f, q) THEN IsFile(f, q)
    ELSE Rank(p[Len(p)]) < Rank(q[Len(q)])

\* the sort key of _sorted_entries compared: (is_file, name.lower())
EntryLess(f, p, q) ==
    IF IsFile(f, p) # IsFile(f, q) THEN IsFile(f, q)
    ELSE Rank(Lower(p[Len(p)])) < Rank(Lower(q[Len(q)]))

\* _sorted_entries: sorted() is stable, entries with equal keys stay in the
\* order iterdir gave them
RECURSIVE SortedEntriesOf(_, _)
SortedEntriesOf(f, S) ==
    IF S = {} THEN <<>>
    ELSE LET m == CHOOSE x \in S : \A y \in S : ~EntryLess(f, y, x)
         IN <<m>> \o SortedEntriesOf(f, S \ {m})

SortedEntries(f, dir) == SortedEntriesOf(f, Entries(f, dir))

\* _tree_for_path(path, root).to_dict(): a file node has a size and no
\* children key, a directory node children and no size key
RECURSIVE TreeForPath(_, _, _)
TreeForPath(f, path, root) ==
    IF IsDir(f, path)
    THEN With(SortedEntries(f, path), LAMBDA es :
             [name |-> path[Len(path)], path |-> RelativePath(path, root),
              type |-> "directory",
              children |-> [i \in 1..Len(es) |-> TreeForPath(f, es[i], root)]])
    ELSE [name |-> path[Len(path)], path |-> RelativePath(path, root),
          type |-> "file", size |-> Len(f[path].bytes) + f[path].fill]

\* list_tree
ListTree(st, w, now) ==
    With(ResolveWorkspaceSession(st, w, now), LAMBDA s :
        IF s.err # "" THEN Raise(s.fs, s.sessions, s.err, "workspace_id")
        ELSE
        With(s.sessions[s.id].path, LAMBDA root :
            With(SortedEntries(s.fs, root), LAMBDA es :
                Outcome(s.fs, s.sessions, "", "", root, root,
                        [i \in 1..Len(es) |-> TreeForPath(s.fs, es[i], root)],
                        <<>>, NoText))))

\* the regular files below root, by as_posix() in ascending order
FilesBelow(f, root) ==
    Sorted({ q \in DOMAIN f : q # root /\ IsPrefix(root, q) /\ IsFile(f, q) })

\* list_flat_text_files letting the decoding error of a file out
ListFlatTextFilesStrict(st, w, now) ==
    With(ResolveWorkspaceSession(st, w, now), LAMBDA s :
        IF s.err # "" THEN Raise(s.fs, s.sessions, s.err, "workspace_id")
        ELSE
        With(s.sessions[s.id].path, LAMBDA root :
            With(FilesBelow(s.fs, root), LAMBDA paths :
                IF \E i \in 1..Len(paths) : ~ValidUtf8(s.fs[paths[i]].bytes)
                THEN Outcome(s.fs, s.sessions, "Binary", "binary", root, root,
                             <<>>, <<>>, NoText)
                ELSE Outcome(s.fs, s.sessions, "", "", root, root, <<>>,
                             [rel \in { RelativePath(paths[i], root) : i \in 1..Len(paths) } |->
                                 [text |-> Decode(s.fs[root \o rel].bytes),
                                  fill |-> s.fs[root \o rel].fill]],
                             NoText))))

\* list_flat_text_files: `files` is the map of the decoded files, `ret` the
\* list of the skipped ones
ListFlatTextFiles(st, w, now) ==
    With(ResolveWorkspaceSession(st, w, now), LAMBDA s :
        IF s.err # "" THEN Raise(s.fs, s.sessions, s.err, "workspace_id")
        ELSE
        With(s.sessions[s.id].path, LAMBDA root :
            With(FilesBelow(s.fs, root), LAMBDA paths :
                With({ RelativePath(paths[i], root) :
                         i \in { j \in 1..Len(paths) : ValidUtf8(s.fs[paths[j]].bytes) } },
                     LAMBDA decoded :
                    Outcome(s.fs, s.sessions, "", "", root, root,
                            Filter([i \in 1..Len(paths) |-> RelativePath(paths[i], root)],
                                   decoded),
                            [rel \in decoded |->
                                [text |-> Decode(s.fs[root \o rel].bytes),
                                 fill |-> s.fs[root \o rel].fill]],
                            NoText)))))

\* the entries of an archive written in the order of `paths`
ZipEntries(f, root, paths) ==
    [i \in 1..Len(paths) |->
        [arcname |-> RelativePath(paths[i], root),
         bytes |-> f[paths[i]].bytes, fill |-> f[paths[i]].fill]]

\* a directory walk in an order of its own: here the descending one
RECURSIVE Reverse(_)
Reverse(s) == IF s = <<>> THEN <<>> ELSE Reverse(Tail(s)) \o <<Head(s)>>

\* build_workspace_zip writing the files as the walk yields them
BuildWorkspaceZipUnsorted(st, w, now) ==
    With(ResolveWorkspaceSession(st, w, now), LAMBDA s :
        IF s.err # "" THEN Raise(s.fs, s.sessions, s.err, "workspace_id")
        ELSE
        With(s.sessions[s.id].path, LAMBDA root :
            Outcome(s.fs, s.sessions, "", "", root, root, <<>>,
                    ZipEntries(s.fs, root, Reverse(FilesBelow(s.fs, root))), NoText)))

\* build_workspace_zip: `files` is the sequence of the archive's entries
BuildWorkspaceZip(st, w, now) ==
    With(ResolveWorkspaceSession(st, w, now), LAMBDA s :
        IF s.err # "" THEN Raise(s.fs, s.sessions, s.err, "workspace_id")
        ELSE
        With(s.sessions[s.id].path, LAMBDA root :
            Outcome(s.fs, s.sessions, "", "", root, root, <<>>,
                    ZipEntries(s.fs, root, FilesBelow(s.fs, root)), NoText)))

----------------------------------------------------------------------------
(* Initial states: the registry is empty (it lives in memory), the disk     *)
(* holds what earlier runs left under the base directory.                  *)

EmptyDisk == [q \in {} |-> DirNode]
Disk(dirs, files) ==
    [q \in dirs \cup DOMAIN files |-> IF q \in dirs THEN DirNode ELSE FileNode(files[q], 0)]

OtherRoot == SessionPath(OtherId)

\* default: a/ holding the file a/a, and the file b; session b: the empty
\* directory a
UsedDisk ==
    Disk({WORKSPACE_BASE_DIR, WORKSPACE_ROOT, WORKSPACE_ROOT \o <<"a">>,
          OtherRoot, OtherRoot \o <<"a">>},
         (WORKSPACE_ROOT \o <<"a", "a">>) :> <<"x">>
         @@ (WORKSPACE_ROOT \o <<"b">>) :> <<"CR">>)

InitDisks == {EmptyDisk, UsedDisk}

NoCall ==
    [op |-> "none", path |-> <<>>, path2 |-> <<>>, content |-> NoText, flag |-> FALSE,
     ws |-> NoId, out |-> Raise(EmptyDisk, EmptyDisk, "", ""),
     pre |-> State(EmptyDisk, EmptyDisk)]

\* a thread that is not inside a call
IdleThread ==
    [pc |-> "idle", op |-> "none", id |-> NoId, now |-> 0, expired |-> {},
     seen |-> EmptyDisk, ret |-> NoId, bound |-> NoId, tokens |-> <<>>]

\* a fresh process: nothing registered, no binding, no thread in a call
Started ==
    /\ sessions = EmptyDisk
    /\ active = NoId
    /\ clock = 0
    /\ pc = "idle"
    /\ nops = 0
    /\ last = NoCall
    /\ ctx = <<>>
    /\ lock = NoThread
    /\ thr = [t \in Threads |-> IdleThread]

Init ==
    /\ os \in Platforms
    /\ fs \in InitDisks
    /\ Started

----------------------------------------------------------------------------
(* Actions: one call of a public function, run to its return or raise *)

Here == State(fs, sessions)

Call(op, p, p2, c, flag, w, out) ==
    /\ pc' = "returned"
    /\ fs' = out.fs
    /\ sessions' = out.sessions
    /\ last' = [op |-> op, path |-> p, path2 |-> p2, content |-> c, flag |-> flag,
                ws |-> w, out |-> out, pre |-> Here]
    /\ UNCHANGED <<os, active, clock, ctx, lock, thr>>

\* a caller that may issue a file operation
CanCall == pc = "idle" /\ nops < MaxFileOps

FileCall(op, p, p2, c, flag, w, out) ==
    /\ nops' = nops + 1
    /\ Call(op, p, p2, c, flag, w, out)

SessionCall(op, w, out) ==
    /\ UNCHANGED nops
    /\ Call(op, <<>>, <<>>, NoText, FALSE, w, out)

DoResolveWorkspacePath ==
    /\ CanCall
    /\ \E p \in PathStrings, allow_root \in BOOLEAN, w \in WsArgs :
          FileCall("resolve_workspace_path", p, <<>>, NoText, allow_root, w,
                   ResolveWorkspacePath(Here, p, allow_root, w, clock))

DoReadTextFile ==
    /\ CanCall
    /\ \E p \in PathStrings, w \in WsArgs :
          FileCall("read_text_file", p, <<>>, NoText, FALSE, w,
                   ReadTextFile(Here, p, w, clock))

DoWriteTextFile ==
    /\ CanCall
    /\ \E p \in PathStrings, c \in Contents, w \in WsArgs :
          FileCall("write_text_file", p, <<>>, c, FALSE, w,
                   WriteTextFile(Here, p, c, w, clock))

DoCreateFolder ==
    /\ CanCall
    /\ \E p \in PathStrings, w \in WsArgs :
          FileCall("create_folder", p, <<>>, NoText, FALSE, w,
                   CreateFolder(Here, p, w, clock))

DoDeletePath ==
    /\ CanCall
    /\ \E p \in PathStrings, recursive \in BOOLEAN, w \in WsArgs :
          FileCall("delete_path", p, <<>>, NoText, recursive, w,
                   DeletePath(Here, p, recursive, w, clock))

DoRenamePath ==
    /\ CanCall
    /\ \E pq \in PathPairs, overwrite \in BOOLEAN, w \in WsArgs :
          FileCall("rename_path", pq[1], pq[2], NoText, overwrite, w,
                   RenamePath(Here, pq[1], pq[2], overwrite, w, clock))

DoListRelativeFiles ==
    /\ CanCall
    /\ \E dir \in PathStrings, w \in WsArgs :
          FileCall("list_relative_files", dir, <<>>, NoText, FALSE, w,
                   ListRelativeFiles(Here, dir, w, clock))

\* ensure_session(w)
DoEnsureSession ==
    /\ pc = "idle"
    /\ \E w \in WsArgsAny :
          LET e == EnsureSessionState(Here, w, SESSION_TTL_SECONDS, clock)
          IN SessionCall("ensure_session", w,
                 Outcome(e.fs, e.sessions, e.err, "", <<>>, <<>>, <<e.id>>, <<>>, NoText))

\* delete_session(w)
DoDeleteSession ==
    /\ pc = "idle"
    /\ \E w \in WsArgsAny :
          LET n == NormalizeWorkspaceId(w)
              d == DeleteSessionState(Here, n.id)
          IN SessionCall("delete_session", w,
                 IF n.err # "" THEN Raise(fs, sessions, n.err, "workspace_id")
                 ELSE Outcome(d.fs, d.sessions, "", "", <<>>, <<>>,
                              IF d.deleted THEN <<"true">> ELSE <<"false">>, <<>>, NoText))

\* cleanup_expired_sessions()
DoCleanupExpiredSessions ==
    /\ pc = "idle"
    /\ LET c == CleanupExpiredSessions(Here, clock)
       IN SessionCall("cleanup_expired_sessions", NoId,
              Outcome(c.fs, c.sessions, "", "", <<>>, <<>>, <<>>,
                      Sorted({ <<id>> : id \in ExpiredIds(sessions, clock) }), NoText))

\* the caller takes the result
Return ==
    /\ pc = "returned"
    /\ pc' = "idle"
    /\ last' = NoCall
    /\ UNCHANGED <<os, fs, sessions, active, clock, nops, ctx, lock, thr>>

\* time passes
Tick ==
    /\ pc = "idle"
    /\ clock < MaxTicks * SESSION_TTL_SECONDS
    /\ clock' = clock + SESSION_TTL_SECONDS
    /\ UNCHANGED <<os, fs, sessions, active, pc, nops, last, ctx, lock, thr>>

Next ==
    \/ DoResolveWorkspacePath
    \/ DoReadTextFile
    \/ DoWriteTextFile
    \/ DoCreateFolder
    \/ DoDeletePath
    \/ DoRenamePath
    \/ DoListRelativeFiles
    \/ DoEnsureSession
    \/ DoDeleteSession
    \/ DoCleanupExpiredSessions
    \/ Return
    \/ Tick

Spec == Init /\ [][Next]_vars

----------------------------------------------------------------------------
(* The session registry on its own: renewal windows, a clock read between  *)
(* renewals, and workspace_context blocks around the calls.                *)

\* the path of session b taken by a regular file
BlockedDisk == Disk({WORKSPACE_BASE_DIR}, OtherRoot :> <<"x">>)
SessionDisks == {EmptyDisk, UsedDisk, BlockedDisk}

SessionInit ==
    /\ os = "posix"
    /\ fs \in SessionDisks
    /\ Started

\* a call that leaves the binding and the open contexts alone
RegistryCall(op, w, flag, e) ==
    /\ UNCHANGED nops
    /\ Call(op, <<>>, <<>>, NoText, flag, w,
            Outcome(e.fs, e.sessions, e.err, "", <<>>, <<>>, <<e.id>>, <<>>, NoText))

\* ensure_session(w, ttl_seconds=ttl)
DoEnsureSessionWithTtl ==
    /\ pc = "idle"
    /\ \E w \in WsArgsSession, ttl \in TtlArgs :
          RegistryCall("ensure_session", w, FALSE, EnsureSessionState(Here, w, ttl, clock))

\* touch_session(w) and touch_session(w, ttl_seconds=ttl)
DoTouchSession ==
    /\ pc = "idle"
    /\ \E w \in WsArgsSession, has_ttl \in BOOLEAN, ttl \in TtlArgs :
          RegistryCall("touch_session", w, has_ttl,
                       TouchSessionState(Here, w, has_ttl, ttl, clock))

\* with workspace_context(w): entry up to the yield, or the exception raised
\* on the way
DoEnterContext ==
    /\ pc = "idle"
    /\ Len(ctx) < MaxNesting
    /\ \E w \in WsArgsSession :
          LET n     == EffectiveWorkspaceId(w, active)
              token == [old_value |-> active, bound |-> n.id]
              e     == IF n.err # ""
                       THEN [fs |-> fs, sessions |-> sessions, err |-> n.err, id |-> n.id]
                       ELSE EnsureSessionState(Here, n.id, SESSION_TTL_SECONDS, clock)
          IN /\ fs' = e.fs
             /\ sessions' = e.sessions
             /\ active' = IF n.err # "" THEN active
                          ELSE IF e.err # "" THEN ResetBinding(token)
                          ELSE n.id
             /\ ctx' = IF e.err # "" THEN ctx ELSE Append(ctx, token)
             /\ pc' = "returned"
             /\ last' = [op |-> "workspace_context", path |-> <<>>, path2 |-> <<>>,
                         content |-> NoText, flag |-> FALSE, ws |-> w,
                         out |-> Outcome(e.fs, e.sessions, e.err, "", <<>>, <<>>,
                                         <<e.id>>, <<>>, NoText),
                         pre |-> Here]
             /\ UNCHANGED <<os, clock, nops, lock, thr>>

\* the body of the innermost workspace_context ends, by return or by an
\* exception: the finally clause resets the binding
DoExitContext ==
    /\ pc = "idle"
    /\ ctx # <<>>
    /\ \E raised \in BOOLEAN :
          /\ active' = ResetBinding(ctx[Len(ctx)])
          /\ ctx' = SubSeq(ctx, 1, Len(ctx) - 1)
          /\ pc' = "returned"
          /\ last' = [NoCall EXCEPT !.op = "workspace_context_exit", !.flag = raised,
                                    !.ws = ctx[Len(ctx)].bound, !.pre = Here]
          /\ UNCHANGED <<os, fs, sessions, clock, nops, lock, thr>>

\* time passes between two calls
Elapse ==
    /\ pc = "idle"
    /\ clock < MaxTicks * SESSION_TTL_SECONDS
    /\ clock' = clock + ElapseSeconds
    /\ UNCHANGED <<os, fs, sessions, active, pc, nops, last, ctx, lock, thr>>

SessionNext ==
    \/ DoEnsureSessionWithTtl
    \/ DoTouchSession
    \/ DoDeleteSession
    \/ DoCleanupExpiredSessions
    \/ DoEnterContext
    \/ DoExitContext
    \/ Return
    \/ Elapse

SessionSpec == SessionInit /\ [][SessionNext]_vars

----------------------------------------------------------------------------
(* Threads calling into the registry.  A step is what a thread does        *)
(* between two points where another thread can run and see the registry:   *)
(* a block under _SESSIONS_LOCK that nothing else can enter is one step,   *)
(* the sweep's block is split at each removal so that a step of a thread  *)
(* not stopped by the lock would show.                                     *)

\* values uuid4().hex can take
Uuids == {"a", OtherId}
\* ids the threads ask for
ThreadIds == {DEFAULT_WORKSPACE_ID, OtherId}

\* a lock that stops nobody
LockFreeAlways(t) == TRUE

\* `with _SESSIONS_LOCK` lets thread t in: the RLock is free or t's own
LockFree(t) == lock \in {NoThread, t}

ThreadInit ==
    /\ os = "posix"
    /\ fs \in {EmptyDisk, UsedDisk}
    /\ Started

ThreadFrame == UNCHANGED <<os, active, clock, pc, nops, last, ctx>>

\* cleanup_expired_sessions reads the clock, then waits for the lock
SweepReadNow ==
    \E t \in Threads :
        /\ thr[t].pc = "idle"
        /\ thr' = [thr EXCEPT ![t] = [IdleThread EXCEPT
                       !.pc = "sweep_wait", !.op = "cleanup_expired_sessions",
                       !.now = clock]]
        /\ UNCHANGED <<fs, sessions, lock>>
        /\ ThreadFrame

\* under the lock: the list of the sessions expired at the reading taken
SweepDecide ==
    \E t \in Threads :
        /\ thr[t].pc = "sweep_wait"
        /\ LockFree(t)
        /\ lock' = t
        /\ thr' = [thr EXCEPT ![t].pc = "sweep_remove",
                              ![t].expired = ExpiredIds(sessions, thr[t].now),
                              ![t].seen = sessions]
        /\ UNCHANGED <<fs, sessions>>
        /\ ThreadFrame

\* still under the lock: delete_session of one listed id
SweepRemove ==
    \E t \in Threads :
        /\ thr[t].pc = "sweep_remove"
        /\ \E id \in thr[t].expired :
              With(DeleteSessionState(Here, id), LAMBDA d :
                  /\ fs' = d.fs
                  /\ sessions' = d.sessions
                  /\ thr' = [thr EXCEPT ![t].expired = thr[t].expired \ {id}])
        /\ UNCHANGED lock
        /\ ThreadFrame

\* the list is done: the lock is released and the list returned
SweepRelease ==
    \E t \in Threads :
        /\ thr[t].pc = "sweep_remove"
        /\ thr[t].expired = {}
        /\ lock' = NoThread
        /\ thr' = [thr EXCEPT ![t].pc = "done"]
        /\ UNCHANGED <<fs, sessions>>
        /\ ThreadFrame

\* ensure_session(w) reads the clock, then waits for the lock
EnsureReadNow ==
    \E t \in Threads, w \in ThreadIds :
        /\ thr[t].pc = "idle"
        /\ thr' = [thr EXCEPT ![t] = [IdleThread EXCEPT
                       !.pc = "ensure_wait", !.op = "ensure_session",
                       !.id = w, !.now = clock]]
        /\ UNCHANGED <<fs, sessions, lock>>
        /\ ThreadFrame

\* the block of ensure_session under the lock, with the reading taken
\* before it
EnsureLocked ==
    \E t \in Threads :
        /\ thr[t].pc = "ensure_wait"
        /\ LockFree(t)
        /\ With(EnsureSessionState(Here, thr[t].id, SESSION_TTL_SECONDS, thr[t].now),
                LAMBDA e :
                  /\ fs' = e.fs
                  /\ sessions' = e.sessions
                  /\ thr' = [thr EXCEPT ![t].pc = "done",
                                        ![t].ret = IF e.err = "" THEN e.id ELSE NoId])
        /\ UNCHANGED lock
        /\ ThreadFrame

\* touch_session(w, ttl_seconds): ensure and renewal under one hold of the
\* lock, the clock read inside
TouchLocked ==
    \E t \in Threads :
        /\ thr[t].pc = "idle"
        /\ LockFree(t)
        /\ \E w \in ThreadIds, has_ttl \in BOOLEAN :
              With(TouchSessionState(Here, w, has_ttl, ShortTtl, clock), LAMBDA e :
                  /\ fs' = e.fs
                  /\ sessions' = e.sessions
                  /\ thr' = [thr EXCEPT ![t] = [IdleThread EXCEPT
                                 !.pc = "done", !.op = "touch_session", !.id = w,
                                 !.now = clock,
                                 !.ret = IF e.err = "" THEN e.id ELSE NoId]])
        /\ UNCHANGED lock
        /\ ThreadFrame

\* create_session under the lock: a uuid that is not registered
CreatePick ==
    \E t \in Threads :
        /\ thr[t].pc = "idle"
        /\ LockFree(t)
        /\ \E candidate \in Uuids \ DOMAIN sessions :
              thr' = [thr EXCEPT ![t] = [IdleThread EXCEPT
                          !.pc = "create_picked", !.op = "create_session",
                          !.id = candidate]]
        /\ UNCHANGED <<fs, sessions, lock>>
        /\ ThreadFrame

\* create_session, the lock released: ensure_session(candidate) reads the
\* clock and waits for the lock as any other ensure_session
CreateReadNow ==
    \E t \in Threads :
        /\ thr[t].pc = "create_picked"
        /\ thr' = [thr EXCEPT ![t].pc = "ensure_wait", ![t].now = clock]
        /\ UNCHANGED <<fs, sessions, lock>>
        /\ ThreadFrame

\* the caller takes the result
ThreadReturn ==
    \E t \in Threads :
        /\ thr[t].pc = "done"
        /\ thr' = [thr EXCEPT ![t] = IdleThread]
        /\ UNCHANGED <<fs, sessions, lock>>
        /\ ThreadFrame

ThreadNext ==
    \/ SweepReadNow
    \/ SweepDecide
    \/ SweepRemove
    \/ SweepRelease
    \/ EnsureReadNow
    \/ EnsureLocked
    \/ TouchLocked
    \/ CreatePick
    \/ CreateReadNow
    \/ ThreadReturn
    \/ Elapse

ThreadSpec == ThreadInit /\ [][ThreadNext]_vars

\* delete_session(w) under the lock: the entry is popped, and the lock
\* released before the directory is looked at
DeletePop ==
    \E t \in Threads :
        /\ thr[t].pc = "idle"
        /\ LockFree(t)
        /\ \E w \in ThreadIds :
              /\ sessions' = Drop(sessions, w)
              /\ thr' = [thr EXCEPT ![t] = [IdleThread EXCEPT
                             !.pc = "delete_popped", !.op = "delete_session",
                             !.id = w]]
        /\ UNCHANGED <<fs, lock>>
        /\ ThreadFrame

\* delete_session outside the lock: rmtree of the root if it exists
DeleteRemove ==
    \E t \in Threads :
        /\ thr[t].pc = "delete_popped"
        /\ fs' = IF Exists(fs, SessionPath(thr[t].id))
                 THEN RemoveTree(fs, SessionPath(thr[t].id)) ELSE fs
        /\ thr' = [thr EXCEPT
                       ![t].pc = "done",
                       ![t].ret = IF Exists(fs, SessionPath(thr[t].id))
                                  THEN "true" ELSE "false"]
        /\ UNCHANGED <<sessions, lock>>
        /\ ThreadFrame

\* threads that ensure, delete and sweep
RaceNext ==
    \/ EnsureReadNow
    \/ EnsureLocked
    \/ DeletePop
    \/ DeleteRemove
    \/ SweepReadNow
    \/ SweepDecide
    \/ SweepRemove
    \/ SweepRelease
    \/ ThreadReturn
    \/ Elapse

RaceSpec == ThreadInit /\ [][RaceNext]_vars

----------------------------------------------------------------------------
(* Call chains.  Each chain (a request's task and the worker thread it     *)
(* hands its context to) runs in its own contextvars.Context; a chain's    *)
(* record in `thr` holds the value _ACTIVE_WORKSPACE_ID has in its context *)
(* and the tokens of the workspace_context blocks it has open.             *)

\* ids the chains bind
ChainIds == {OtherId, "a"}

\* one context for the whole process
ContextOfProcess(t) == "t1"

\* the context chain t runs in: its own
ContextOf(t) == t

\* _ACTIVE_WORKSPACE_ID.get() in chain t
Bound(t) == thr[ContextOf(t)].bound

ChainFrame == UNCHANGED <<os, active, clock, pc, nops, last, ctx, lock>>

\* chain t enters workspace_context(w): the id is bound in t's context and
\* the session ensured
ChainEnter ==
    \E t \in Threads :
        /\ thr[t].pc = "idle"
        /\ Len(thr[t].tokens) < MaxNesting
        /\ \E w \in ChainIds \cup {NoId} :
              LET n     == EffectiveWorkspaceId(w, Bound(t))
                  token == [old_value |-> Bound(t), bound |-> n.id]
              IN With(EnsureSessionState(Here, n.id, SESSION_TTL_SECONDS, clock),
                      LAMBDA e :
                        /\ fs' = e.fs
                        /\ sessions' = e.sessions
                        /\ thr' = [thr EXCEPT
                                       ![ContextOf(t)].bound = n.id,
                                       ![t].tokens = Append(thr[t].tokens, token),
                                       ![t].pc = "done",
                                       ![t].op = "workspace_context",
                                       ![t].ret = e.id])
        /\ ChainFrame

\* chain t calls ensure_session() without an id
ChainResolve ==
    \E t \in Threads :
        /\ thr[t].pc = "idle"
        /\ With(EnsureSessionState(Here, EffectiveWorkspaceId(NoId, Bound(t)).id,
                                   SESSION_TTL_SECONDS, clock),
                LAMBDA e :
                  /\ fs' = e.fs
                  /\ sessions' = e.sessions
                  /\ thr' = [thr EXCEPT ![t].pc = "done",
                                        ![t].op = "ensure_session",
                                        ![t].now = clock,
                                        ![t].ret = e.id])
        /\ ChainFrame

\* the innermost workspace_context of chain t ends: the token is reset
ChainExit ==
    \E t \in Threads :
        /\ thr[t].pc = "idle"
        /\ thr[t].tokens # <<>>
        /\ thr' = [thr EXCEPT
                       ![ContextOf(t)].bound =
                           ResetBinding(thr[t].tokens[Len(thr[t].tokens)]),
                       ![t].tokens = SubSeq(thr[t].tokens, 1, Len(thr[t].tokens) - 1),
                       ![t].pc = "done",
                       ![t].op = "workspace_context_exit",
                       ![t].ret = NoId]
        /\ UNCHANGED <<fs, sessions>>
        /\ ChainFrame

\* the chain goes on with the result
ChainReturn ==
    \E t \in Threads :
        /\ thr[t].pc = "done"
        /\ thr' = [thr EXCEPT ![t].pc = "idle", ![t].op = "none",
                              ![t].now = 0, ![t].ret = NoId]
        /\ UNCHANGED <<fs, sessions>>
        /\ ChainFrame

ChainNext ==
    \/ ChainEnter
    \/ ChainResolve
    \/ ChainExit
    \/ ChainReturn
    \/ Elapse

ChainSpec == ThreadInit /\ [][ChainNext]_vars

----------------------------------------------------------------------------
(* The agent tools of agent/tools.py *)

\* PROJECT_ROOT: the generated_project folder beside the package
PROJECT_ROOT == <<"generated_project">>

\* path arguments of the tools
ToolPaths ==
    { s \in PathStrings : \A i \in 1..Len(s) : s[i] \notin {" ", "C:"} }

\* str.lstrip("/\\"): the leading separators go
RECURSIVE LStripSeparators(_)
LStripSeparators(s) ==
    IF Len(s) >= 2 /\ Head(s) = "" THEN LStripSeparators(Tail(s)) ELSE s

\* safe_path_for_project: [err, path]
SafePathForProject(p) ==
    With(ResolvePath(PROJECT_ROOT \o Parts(LStripSeparators(p))), LAMBDA resolved :
        IF IsPrefix(PROJECT_ROOT, resolved)
        THEN [err |-> "", path |-> resolved]
        ELSE [err |-> "ValueError", path |-> resolved])

\* write_file
ToolWriteFile(st, p, c) ==
    With(SafePathForProject(p), LAMBDA s :
        IF s.err # "" THEN Raise(st.fs, st.sessions, s.err, "escape")
        ELSE IF MkdirFails(st.fs, Parent(s.path))
        THEN Raise(st.fs, st.sessions, "OSError", "mkdir")
        ELSE
        With(Mkdir(st.fs, Parent(s.path)), LAMBDA f1 :
            IF IsDir(f1, s.path)
            THEN Outcome(f1, st.sessions, "OSError", "is_a_directory",
                         PROJECT_ROOT, s.path, <<>>, <<>>, NoText)
            ELSE Outcome([q \in DOMAIN f1 \cup {s.path} |->
                             IF q = s.path THEN FileNode(Encode(c.text), c.fill)
                             ELSE f1[q]],
                         st.sessions, "", "", PROJECT_ROOT, s.path,
                         RelativePath(s.path, PROJECT_ROOT), <<>>, NoText)))

\* read_file: a missing file is reported in the returned string
ToolReadFile(st, p) ==
    With(SafePathForProject(p), LAMBDA s :
        IF s.err # "" THEN Raise(st.fs, st.sessions, s.err, "escape")
        ELSE IF ~Exists(st.fs, s.path)
        THEN Outcome(st.fs, st.sessions, "", "ERROR", PROJECT_ROOT, s.path,
                     <<>>, <<>>, NoText)
        ELSE IF IsDir(st.fs, s.path)
        THEN Outcome(st.fs, st.sessions, "OSError", "is_a_directory",
                     PROJECT_ROOT, s.path, <<>>, <<>>, NoText)
        ELSE IF ~ValidUtf8(st.fs[s.path].bytes)
        THEN Outcome(st.fs, st.sessions, "UnicodeDecodeError", "binary",
                     PROJECT_ROOT, s.path, <<>>, <<>>, NoText)
        ELSE Outcome(st.fs, st.sessions, "", "", PROJECT_ROOT, s.path, <<>>, <<>>,
                     [text |-> Decode(st.fs[s.path].bytes),
                      fill |-> st.fs[s.path].fill]))

\* list_files: the files below the directory, relative to PROJECT_ROOT, in
\* the order glob yields them (kept as a set)
ToolListFiles(st, dir) ==
    With(SafePathForProject(dir), LAMBDA s :
        IF s.err # "" THEN Raise(st.fs, st.sessions, s.err, "escape")
        ELSE IF ~IsDir(st.fs, s.path)
        THEN Outcome(st.fs, st.sessions, "", "ERROR", PROJECT_ROOT, s.path,
                     <<>>, <<>>, NoText)
        ELSE Outcome(st.fs, st.sessions, "", "", PROJECT_ROOT, s.path,
                     { RelativePath(q, PROJECT_ROOT) :
                         q \in { x \in DOMAIN st.fs :
                                   x # s.path /\ IsPrefix(s.path, x) /\ IsFile(st.fs, x) } },
                     <<>>, NoText))

\* import of agent.tools creates PROJECT_ROOT
ToolInit ==
    /\ os = "posix"
    /\ fs \in { Mkdir(d, PROJECT_ROOT) : d \in InitDisks }
    /\ Started

ToolCall(op, p, c, out) ==
    /\ nops' = nops + 1
    /\ Call(op, p, <<>>, c, FALSE, NoId, out)

CanCallTool == pc = "idle" /\ nops < MaxToolOps

DoToolWriteFile ==
    /\ CanCallTool
    /\ \E p \in ToolPaths, c \in Contents :
          ToolCall("write_file", p, c, ToolWriteFile(Here, p, c))

DoToolReadFile ==
    /\ CanCallTool
    /\ \E p \in ToolPaths :
          ToolCall("read_file", p, NoText, ToolReadFile(Here, p))

DoToolListFiles ==
    /\ CanCallTool
    /\ \E dir \in ToolPaths :
          ToolCall("list_files", dir, NoText, ToolListFiles(Here, dir))

\* a workflow run: workspace_context around calls of the tools
ToolNext ==
    \/ DoEnterContext
    \/ DoExitContext
    \/ DoToolWriteFile
    \/ DoToolReadFile
    \/ DoToolListFiles
    \/ Return

ToolSpec == ToolInit /\ [][ToolNext]_vars

----------------------------------------------------------------------------
(* A session that is listed, read and archived *)

\* default: the directories a (holding the file a/a) and B, the files A
\* and b, b not UTF-8; session b: the directory a holding a file that is
\* not UTF-8
MixedDisk ==
    [q \in {WORKSPACE_ROOT \o <<"b">>, OtherRoot \o <<"a", "b">>} |->
         FileNode(<<"FF">>, 0)]
    @@ Disk({WORKSPACE_BASE_DIR, WORKSPACE_ROOT, WORKSPACE_ROOT \o <<"a">>,
             WORKSPACE_ROOT \o <<"B">>, OtherRoot, OtherRoot \o <<"a">>},
            (WORKSPACE_ROOT \o <<"a", "a">>) :> <<"x">>
            @@ (WORKSPACE_ROOT \o <<"A">>) :> <<"CR", "LF">>)

ListingInit ==
    /\ os = "posix"
    /\ fs \in {UsedDisk, MixedDisk}
    /\ Started

DoListTree ==
    /\ pc = "idle"
    /\ \E w \in WsArgs :
          SessionCall("list_tree", w, ListTree(Here, w, clock))

DoListFlatTextFiles ==
    /\ pc = "idle"
    /\ \E w \in WsArgs :
          SessionCall("list_flat_text_files", w, ListFlatTextFiles(Here, w, clock))

DoBuildWorkspaceZip ==
    /\ pc = "idle"
    /\ \E w \in WsArgs :
          SessionCall("build_workspace_zip", w, BuildWorkspaceZip(Here, w, clock))

\* one change or read of a file, and any number of listings and archives
ListingNext ==
    \/ DoReadTextFile
    \/ DoWriteTextFile
    \/ DoCreateFolder
    \/ DoDeletePath
    \/ DoListTree
    \/ DoListFlatTextFiles
    \/ DoBuildWorkspaceZip
    \/ Return
    \/ Tick

ListingSpec == ListingInit /\ [][ListingNext]_vars

----------------------------------------------------------------------------
(* Properties.  They read the call in `last` once it has returned. *)

Returned(op) == pc = "returned" /\ last.op = op
PathOps == {"read_text_file", "write_text_file", "create_folder", "delete_path",
            "rename_path", "list_relative_files"}
MutatingOps == {"read_text_file", "write_text_file", "create_folder", "delete_path",
                "rename_path"}
GuardReasons == {"empty", "absolute", "drive", "escape"}

\* the session the call addresses, its root, and where a path argument lands
CallId == EffectiveWorkspaceId(last.ws, active).id
CallRoot == SessionPath(CallId)
RECURSIVE Walk(_, _)
Walk(at, segs) ==
    IF segs = <<>> THEN at
    ELSE IF Head(segs) \in {"", "."} THEN Walk(at, Tail(segs))
    ELSE IF Head(segs) = ".."
    THEN Walk(IF at = <<>> THEN at ELSE SubSeq(at, 1, Len(at) - 1), Tail(segs))
    ELSE Walk(at \o <<Head(segs)>>, Tail(segs))
Lands(p) == Walk(IF Rooted(Strip(p)) THEN <<>> ELSE CallRoot, Strip(p))
HasDotDot(p) == \E i \in 1..Len(p) : p[i] = ".."
IsRelativeArg(p) ==
    /\ Strip(p) \notin {<<"">>, <<".">>}
    /\ ~Rooted(Strip(p))
    /\ Drive(Strip(p)) = ""
PathArgs == IF last.op = "rename_path" THEN {last.path, last.path2} ELSE {last.path}
Subtree(f, r) == [q \in { x \in DOMAIN f : IsPrefix(r, x) } |-> f[q]]

\* C1: resolve_workspace_path either raises WorkspaceValidationError or
\* returns the session root or a path below it, whatever the path string.
C1_ResolveStaysInRoot ==
    Returned("resolve_workspace_path") =>
        \/ last.out.err = "Validation"
        \/ last.out.err = "" /\ IsPrefix(CallRoot, last.out.ret)

\* C1 witness: a path with a ".." segment was resolved, to a place in the root
C1_Witness ==
    /\ Returned("resolve_workspace_path")
    /\ HasDotDot(last.path)
    /\ last.out.err = ""
    /\ IsPrefix(CallRoot, last.out.ret)

\* C2 as stated: every relative path with a ".." segment makes each path
\* operation fail with WorkspaceValidationError, even when it resolves inside
\* the root.
C2_AnyDotDotRejected ==
    (pc = "returned" /\ last.op \in PathOps
       /\ \E p \in PathArgs : IsRelativeArg(p) /\ HasDotDot(p))
    => last.out.err = "Validation"

\* C2 amended: every relative path that resolves outside the session root
\* makes each path operation fail with WorkspaceValidationError.
C2_EscapingPathRejected ==
    (pc = "returned" /\ last.op \in PathOps
       /\ \E p \in PathArgs : IsRelativeArg(p) /\ ~IsPrefix(CallRoot, Lands(p)))
    => last.out.err = "Validation"

\* C2 witness: a delete of a path whose ".." leaves the root was refused
C2_Witness ==
    /\ Returned("delete_path")
    /\ IsRelativeArg(last.path) /\ HasDotDot(last.path)
    /\ ~IsPrefix(CallRoot, Lands(last.path))
    /\ last.out.err = "Validation" /\ last.out.msg = "escape"

\* C3: when the Path Guard rejects the path of a read, write, create-folder,
\* delete or rename, nothing has changed when the error is raised: the disk
\* (session roots included) and the registry's entries are as before the call.
C3_RejectedPathChangesNothing ==
    (pc = "returned" /\ last.op \in MutatingOps
       /\ last.out.err = "Validation" /\ last.out.msg \in GuardReasons)
    => /\ fs = last.pre.fs
       /\ DOMAIN sessions = DOMAIN last.pre.sessions


\* the Path Guard accepted every path argument of the call
PathsAccepted == last.out.root # <<>>
\* the text names a place from the filesystem root, or carries a drive
IsAbsoluteText(p) == Len(Strip(p)) >= 2 /\ Strip(p)[1] = ""
IsDriveQualified(p) == os = "nt" /\ Strip(p)[1] = "C:"
\* the disk as the operation found it once its session was resolved:
\* expired sessions swept, the session root in place
Entered == ResolveWorkspaceSession(last.pre, last.ws, clock).fs
\* everything the disk held at or below r is still there, unchanged
Kept(f0, f1, r) == \A q \in DOMAIN f0 : IsPrefix(r, q) => q \in DOMAIN f1 /\ f1[q] = f0[q]

\* C4: an absolute or drive-qualified path given to a file operation is
\* rejected with WorkspaceValidationError by the check that precedes the join
\* with the root (or, for an over-long write, before any path handling); it
\* is never joined, resolved and judged by where it lands.
C4_AbsoluteRejectedBeforeJoin ==
    (pc = "returned" /\ last.op \in PathOps \cup {"resolve_workspace_path"}
       /\ (IsAbsoluteText(last.path) \/ IsDriveQualified(last.path)))
    => /\ last.out.err = "Validation"
       /\ last.out.msg \in {"absolute", "drive", "too_long"}

C6_WriteReadRoundTrip ==
    (Returned("write_text_file") /\ last.out.err = "") =>
        LET r == ReadTextFile(Here, last.path, last.ws, clock)
        IN r.err = "" /\ r.text = last.content

\* C7: write_text_file raises the content-length WorkspaceValidationError
\* exactly when len(content) > MAX_EDITABLE_FILE_CHARS, and then leaves disk
\* and registry as they were; with an accepted path and content within the
\* cap it raises no validation error, fails only on a directory in the
\* file's place or a file in a parent's place, and otherwise leaves every
\* parent a directory and the file holding the encoded content, an existing
\* file being overwritten in every case.
C7_WriteCapAndOverwrite ==
    Returned("write_text_file") =>
        LET c == last.content
            o == last.out
            tooLong == ContentLen(c) > MAX_EDITABLE_FILE_CHARS
        IN /\ (o.err = "Validation" /\ o.msg = "too_long") <=> tooLong
           /\ tooLong => fs = last.pre.fs /\ sessions = last.pre.sessions
           /\ (~tooLong /\ PathsAccepted) =>
                 /\ o.err \in {"", "OSError"}
                 /\ o.path = Lands(last.path)
                 /\ o.err = "OSError" =>
                        \/ IsDir(fs, o.path)
                        \/ \E q \in Prefixes(Parent(o.path)) : IsFile(fs, q)
                 /\ o.err = "" =>
                        /\ IsFile(fs, o.path)
                        /\ fs[o.path] = FileNode(Encode(c.text), c.fill)
                        /\ \A q \in Prefixes(Parent(o.path)) : IsDir(fs, q)
                        /\ o.ret = RelativePath(o.path, CallRoot)
                 /\ IsFile(Entered, o.path) => o.err = ""

\* C7 witness: content of exactly the cap replaced an existing file's content
C7_Witness ==
    /\ Returned("write_text_file")
    /\ ContentLen(last.content) = MAX_EDITABLE_FILE_CHARS
    /\ last.out.err = ""
    /\ IsFile(last.pre.fs, last.out.path)
    /\ fs[last.out.path] # last.pre.fs[last.out.path]

\* C8: delete_path on an accepted path, by what it finds on disk:
\* a missing path raises NotFound and removes nothing; a non-empty directory
\* with recursive=false raises Conflict and stays with all its descendants;
\* with recursive=true it and all its descendants are gone; a file or empty
\* directory is removed whatever the flag; nothing else in the root goes.
C8_DeletePath ==
    (Returned("delete_path") /\ PathsAccepted) =>
        LET t  == Lands(last.path)
            f0 == Entered
            o  == last.out
            full == IsDir(f0, t) /\ HasChildren(f0, t)
        IN /\ ~Exists(f0, t) => o.err = "NotFound" /\ Kept(f0, fs, CallRoot)
           /\ (full /\ ~last.flag) => o.err = "Conflict" /\ Kept(f0, fs, CallRoot)
           /\ (full /\ last.flag) =>
                 o.err = "" /\ ~\E q \in DOMAIN fs : IsPrefix(t, q)
           /\ (Exists(f0, t) /\ ~full) => o.err = "" /\ t \notin DOMAIN fs
           /\ \A q \in DOMAIN f0 :
                 (IsPrefix(CallRoot, q) /\ ~IsPrefix(t, q)) => q \in DOMAIN fs /\ fs[q] = f0[q]

\* C8 witness: a directory with a file in it was deleted with recursive=true
C8_Witness ==
    /\ Returned("delete_path") /\ PathsAccepted
    /\ last.flag
    /\ Lands(last.path) # CallRoot
    /\ IsDir(Entered, Lands(last.path)) /\ HasChildren(Entered, Lands(last.path))
    /\ last.out.err = ""
    /\ Lands(last.path) \notin DOMAIN fs

\* C9: rename_path(a, b, overwrite=false)
\* with both paths accepted raises Conflict when a and b both exist, and a
\* and b keep what they held; when a does not exist it raises NotFound,
\* whatever b is, and nothing in the root changes.
C9_RenameWithoutOverwrite ==
    (Returned("rename_path") /\ ~last.flag /\ PathsAccepted) =>
        LET src == Lands(last.path)
            tgt == Lands(last.path2)
            f0  == Entered
        IN /\ ~Exists(f0, src) => last.out.err = "NotFound" /\ Kept(f0, fs, CallRoot)
           /\ (Exists(f0, src) /\ Exists(f0, tgt)) =>
                 /\ last.out.err = "Conflict"
                 /\ Subtree(fs, src) = Subtree(f0, src)
                 /\ Subtree(fs, tgt) = Subtree(f0, tgt)

\* C9 witness: a rename of one existing file onto another existing entry
\* was refused
C9_Witness ==
    /\ Returned("rename_path") /\ ~last.flag /\ PathsAccepted
    /\ Lands(last.path) # Lands(last.path2)
    /\ IsFile(Entered, Lands(last.path))
    /\ Exists(Entered, Lands(last.path2))
    /\ Lands(last.path2) # CallRoot
    /\ last.out.err = "Conflict"

\* C10: rename_path(a, b, overwrite=true)
\* with both paths accepted, a existing, b another place that is not inside
\* a and has no file among its parents, succeeds; afterwards a is gone and b
\* holds what a held.
C10_RenameWithOverwrite ==
    (Returned("rename_path") /\ last.flag /\ PathsAccepted
       /\ Exists(Entered, Lands(last.path))
       /\ ~IsPrefix(Lands(last.path), Lands(last.path2))
       /\ ~\E q \in Prefixes(Parent(Lands(last.path2))) : IsFile(Entered, q))
    => LET src == Lands(last.path)
           tgt == Lands(last.path2)
           f0  == Entered
       IN /\ last.out.err = ""
          /\ src \notin DOMAIN fs
          /\ \A q \in DOMAIN f0 :
                IsPrefix(src, q) =>
                    /\ (tgt \o RelativePath(q, src)) \in DOMAIN fs
                    /\ fs[tgt \o RelativePath(q, src)] = f0[q]


\* C11: when create_folder(p) has succeeded, p is a directory, everything
\* the disk held when the operation began is still there unchanged, and a
\* second create_folder(p) succeeds too, returns the same root-relative
\* path and leaves the disk as the first call left it.
C11_CreateFolderIdempotent ==
    (Returned("create_folder") /\ last.out.err = "") =>
        LET again == CreateFolder(Here, last.path, last.ws, clock)
        IN /\ IsDir(fs, last.out.path)
           /\ last.out.path = Lands(last.path)
           /\ \A q \in DOMAIN Entered : q \in DOMAIN fs /\ fs[q] = Entered[q]
           /\ again.err = ""
           /\ again.ret = last.out.ret
           /\ again.fs = fs

\* C11 witness: create_folder succeeded on a directory that was already
\* there with a file in it
C11_Witness ==
    /\ Returned("create_folder")
    /\ last.out.err = ""
    /\ IsDir(Entered, last.out.path)
    /\ \E q \in DOMAIN Entered : q # last.out.path /\ IsPrefix(last.out.path, q) /\ IsFile(fs, q)
    /\ last.out.path # CallRoot


----------------------------------------------------------------------------
(* Properties of the session registry *)

\* the id a registry call returned
ReturnedId == last.out.ret[1]
\* explicit id, else the active binding, else the default id
PrecedenceId ==
    IF last.ws \notin BlankIds THEN last.ws
    ELSE IF active \notin BlankIds THEN active
    ELSE DEFAULT_WORKSPACE_ID
\* the argument alone: the default id when it is empty
ArgumentId == IF last.ws \in BlankIds THEN DEFAULT_WORKSPACE_ID ELSE last.ws

\* what ensure_session leaves when it returns the session `id`
EnsureReturns(id) ==
    LET before == last.pre.sessions
        root   == SessionPath(id)
    IN /\ ReturnedId = id
       /\ id \in DOMAIN sessions
       /\ sessions[id].workspace_id = id
       /\ sessions[id].path = root
       /\ clock < sessions[id].expires_at
       /\ IsDir(fs, root)
       /\ sessions[id].last_accessed = clock
       /\ (id \in DOMAIN before /\ clock >= before[id].expires_at) =>
              ~HasChildren(fs, root)
       /\ (id \in DOMAIN before /\ clock < before[id].expires_at) =>
              /\ sessions[id].expires_at = clock + before[id].ttl_seconds
              /\ Kept(last.pre.fs, fs, root)
       /\ \A other \in DOMAIN before \ {id} :
              other \in DOMAIN sessions /\ sessions[other] = before[other]

\* C12 as stated: an ensure_session that returns gives the session of the
\* normalized argument (the default id when the argument is empty),
\* registered, not expired, its root on disk; an expired entry is replaced
\* by a fresh session with an empty root, a live one is renewed.
C12_EnsureSessionOfArgument ==
    (Returned("ensure_session") /\ last.out.err = "") => EnsureReturns(ArgumentId)

\* C12: an ensure_session that returns gives the session of the effective
\* id (the explicit argument, else the active binding, else the default
\* id), registered, not expired, its root on disk; an expired entry is
\* replaced by a fresh session with an empty root, a live one is renewed
\* and its files kept; it raises only for an id outside the pattern or a
\* root that cannot be created.
C12_EnsureSession ==
    Returned("ensure_session") =>
        /\ last.out.err = "" => EnsureReturns(PrecedenceId)
        /\ last.out.err # "" =>
              \/ last.out.err = "Validation" /\ PrecedenceId \notin WORKSPACE_ID_PATTERN
              \/ last.out.err = "OSError" /\ IsFile(fs, SessionPath(PrecedenceId))

\* C12 witness: inside workspace_context("b"), ensure_session() found b
\* expired with entries under its root and returned b with an empty root
C12_Witness ==
    /\ Returned("ensure_session")
    /\ last.out.err = ""
    /\ last.ws \in BlankIds
    /\ active = OtherId
    /\ ReturnedId = OtherId
    /\ OtherId \in DOMAIN last.pre.sessions
    /\ clock >= last.pre.sessions[OtherId].expires_at
    /\ HasChildren(last.pre.fs, OtherRoot)
    /\ ~HasChildren(fs, OtherRoot)

\* C13: after a touch_session or ensure_session call that returns a session
\* which was registered before the call and last renewed at an earlier
\* clock reading, the session's expires_at is strictly greater than it was
\* before the call.
C13_ExpiryStrictlyIncreases ==
    (pc = "returned" /\ last.op \in {"ensure_session", "touch_session"}
       /\ last.out.err = ""
       /\ ReturnedId \in DOMAIN last.pre.sessions
       /\ last.pre.sessions[ReturnedId].last_accessed < clock)
    => sessions[ReturnedId].expires_at > last.pre.sessions[ReturnedId].expires_at

\* C14: when cleanup_expired_sessions has run, every session that was
\* registered with expires_at <= the clock reading is in the returned list,
\* is no longer registered and has no root directory on disk; every session
\* whose expires_at was still ahead is not in the list, is registered as
\* before and keeps everything under its root.
C14_CleanupExpiredSessions ==
    Returned("cleanup_expired_sessions") =>
        \A id \in DOMAIN last.pre.sessions :
            LET was == last.pre.sessions[id]
                listed == \E i \in 1..Len(last.out.files) : last.out.files[i] = <<id>>
            IN IF clock >= was.expires_at
               THEN /\ listed
                    /\ id \notin DOMAIN sessions
                    /\ ~Exists(fs, was.path)
               ELSE /\ ~listed
                    /\ id \in DOMAIN sessions /\ sessions[id] = was
                    /\ Kept(last.pre.fs, fs, was.path)

\* C14 witness: a sweep at the very reading at which one session expires,
\* with another session still live: the first is gone with its directory,
\* the second stays
C14_Witness ==
    /\ Returned("cleanup_expired_sessions")
    /\ \E id \in DOMAIN last.pre.sessions :
          /\ clock = last.pre.sessions[id].expires_at
          /\ IsDir(last.pre.fs, last.pre.sessions[id].path)
          /\ id \notin DOMAIN sessions
          /\ ~Exists(fs, SessionPath(id))
    /\ \E id \in DOMAIN last.pre.sessions :
          /\ clock < last.pre.sessions[id].expires_at
          /\ id \in DOMAIN sessions
          /\ IsDir(fs, SessionPath(id))

\* C16: delete_session(id) returns true exactly when a registry entry or a
\* root directory existed for id before the call, false only when neither
\* existed.
C16_DeleteSessionReturn ==
    (Returned("delete_session") /\ last.out.err = "") =>
        ((last.out.ret = <<"true">>)
           <=> \/ ArgumentId \in DOMAIN last.pre.sessions
               \/ Exists(last.pre.fs, SessionPath(ArgumentId)))

\* C18: in every state each registry entry is keyed by an id of the
\* pattern (the default id included) and its root is the child of the base
\* directory named by that id; a call given any other id raises
\* WorkspaceValidationError and leaves registry and disk as they were.
C18_RegistryKeysValid ==
    /\ \A id \in DOMAIN sessions :
          /\ id \in WORKSPACE_ID_PATTERN
          /\ sessions[id].workspace_id = id
          /\ sessions[id].path = WORKSPACE_BASE_DIR \o <<id>>
          /\ id = DEFAULT_WORKSPACE_ID => sessions[id].path = WORKSPACE_ROOT
    /\ (pc = "returned" /\ last.ws \notin BlankIds /\ last.ws \notin WORKSPACE_ID_PATTERN) =>
          /\ last.out.err = "Validation"
          /\ sessions = last.pre.sessions
          /\ fs = last.pre.fs

\* C18 witness: with the default session and session b registered, a
\* touch_session given an id outside the pattern was rejected
C18_Witness ==
    /\ Returned("touch_session")
    /\ last.ws = BadId
    /\ last.out.err = "Validation"
    /\ DOMAIN sessions = {DEFAULT_WORKSPACE_ID, OtherId}

\* the binding a call found: workspace_context replaces it on entry and
\* keeps the value it found in its token
BindingFound ==
    IF last.op = "workspace_context" /\ last.out.err = ""
    THEN ctx[Len(ctx)].old_value
    ELSE active

\* C19: a call that resolves the current session id (ensure_session, entry
\* of workspace_context) and returns addresses the explicit id whenever one
\* is given, whatever the binding; the bound id when none is given and a
\* binding is active; the default id when neither is present.
C19_ResolutionPrecedence ==
    (pc = "returned" /\ last.op \in {"ensure_session", "workspace_context"}
       /\ last.out.err = "")
    => /\ last.ws \notin BlankIds => ReturnedId = last.ws
       /\ (last.ws \in BlankIds /\ BindingFound # NoId) => ReturnedId = BindingFound
       /\ (last.ws \in BlankIds /\ BindingFound = NoId) =>
              ReturnedId = DEFAULT_WORKSPACE_ID

\* C19 witness: inside workspace_context("b") an ensure_session given the
\* default id explicitly returned the default session, not the bound one
C19_Witness ==
    /\ Returned("ensure_session")
    /\ last.out.err = ""
    /\ active = OtherId
    /\ last.ws = DEFAULT_WORKSPACE_ID
    /\ ReturnedId = DEFAULT_WORKSPACE_ID

\* C19 witness of the second rank: a nested workspace_context entered
\* without an id inside workspace_context("b") bound b again
C19_WitnessBinding ==
    /\ Returned("workspace_context")
    /\ last.out.err = ""
    /\ last.ws \in BlankIds
    /\ Len(ctx) = 2
    /\ ctx[2].old_value = OtherId
    /\ ReturnedId = OtherId

\* the binding the scopes still open account for: the id bound by the
\* innermost one, None when no scope is open
BindingOfScopes(scopes) ==
    IF scopes = <<>> THEN NoId ELSE scopes[Len(scopes)].bound

\* C20: the active binding is always the id bound by the innermost
\* workspace_context still open and None when none is open, each open
\* scope holding the binding it found on entry: leaving a scope, by return
\* or by an exception of its body, restores the binding of the enclosing
\* scope, and an entry that fails (invalid id, ensure_session raising)
\* leaves the binding as it was before the entry.
C20_BindingScoped ==
    /\ active = BindingOfScopes(ctx)
    /\ \A i \in 1..Len(ctx) :
          ctx[i].old_value = BindingOfScopes(SubSeq(ctx, 1, i - 1))

\* C20 witness: an inner workspace_context nested in workspace_context("b")
\* bound another id and ended by an exception of its body; the binding is
\* b again
C20_Witness ==
    /\ Returned("workspace_context_exit")
    /\ last.flag
    /\ Len(ctx) = 1
    /\ ctx[1].bound = OtherId
    /\ active = OtherId
    /\ last.ws = DEFAULT_WORKSPACE_ID

\* a workspace_context nested in an open one failed on entry, ensure_session
\* raising on a root that is not a directory, and the outer binding stands
C20_FailedEntryReached ==
    /\ Returned("workspace_context")
    /\ last.out.err = "OSError"
    /\ Len(ctx) = 1
    /\ active = DEFAULT_WORKSPACE_ID
    /\ last.ws = OtherId


----------------------------------------------------------------------------
(* Properties of the registry under concurrent callers *)

\* C15: while a sweep holds sessions it has decided are expired and has
\* not removed yet, each of them is still registered exactly as the sweep
\* saw it when it decided: no ensure_session, touch_session or other sweep
\* renews, replaces or removes it between the decision and the removal.
C15_SweepRemovesWhatItDecided ==
    \A t \in Threads :
        thr[t].pc = "sweep_remove" =>
            \A id \in thr[t].expired :
                /\ id \in DOMAIN sessions
                /\ sessions[id] = thr[t].seen[id]

\* C15 witness: a sweep has decided that b is expired and not removed it
\* yet, while an ensure_session("b") that read the clock when b was still
\* live waits for the lock
C15_Witness ==
    \E t, u \in Threads :
        /\ thr[t].pc = "sweep_remove"
        /\ OtherId \in thr[t].expired
        /\ thr[u].pc = "ensure_wait"
        /\ thr[u].id = OtherId
        /\ thr[u].now < sessions[OtherId].expires_at

\* C17: two create_session calls that have returned, concurrent or not,
\* never hold the same id while the session of that id is registered.
C17_CreateSessionFreshIds ==
    \A t, u \in Threads :
        (/\ t # u
         /\ thr[t].pc = "done" /\ thr[t].op = "create_session"
         /\ thr[u].pc = "done" /\ thr[u].op = "create_session"
         /\ thr[t].ret # NoId
         /\ thr[t].ret \in DOMAIN sessions)
        => thr[t].ret # thr[u].ret


----------------------------------------------------------------------------
(* Properties of the session root and of failing calls *)

\* C27: resolve_workspace_path with allow_root=false never returns the
\* session root itself, and no delete_path or rename_path, whatever its
\* arguments, leaves the session without its root directory.
C27_RootNeverResolvedNorRemoved ==
    /\ (Returned("resolve_workspace_path") /\ ~last.flag /\ last.out.err = "")
          => last.out.ret # CallRoot
    /\ (pc = "returned" /\ last.op \in {"delete_path", "rename_path"}
          /\ CallId \in DOMAIN sessions)
          => IsDir(fs, CallRoot)

\* C29: when rename_path raises, whatever the error, the tree under the
\* session root is what the call found once its session was resolved: the
\* source and its content are still at from_path and the destination keeps
\* what it held.
C29_FailedRenameChangesNothing ==
    (Returned("rename_path") /\ last.out.err # "")
    => Subtree(fs, CallRoot) = Subtree(Entered, CallRoot)


\* C30: no step of concurrent registry calls lowers the expires_at of a
\* session that stays registered with the same ttl: an ensure_session that
\* read the clock earlier never overwrites the later expiry written by one
\* that read it later.
C30_ExpiryNeverDecreases ==
    [][\A id \in DOMAIN sessions \cap DOMAIN sessions' :
          sessions'[id].ttl_seconds = sessions[id].ttl_seconds
              => sessions'[id].expires_at >= sessions[id].expires_at]_vars


\* C28: whenever no thread is inside a registry call, every registered
\* session has its root directory on disk, under any interleaving of
\* ensure_session, delete_session and cleanup_expired_sessions.
C28_RegisteredRootOnDisk ==
    (\A t \in Threads : thr[t].pc \in {"idle", "done"})
    => \A id \in DOMAIN sessions : IsDir(fs, SessionPath(id))


\* the id the scopes chain t has open account for
ChainId(t) ==
    IF thr[t].tokens = <<>> THEN DEFAULT_WORKSPACE_ID
    ELSE thr[t].tokens[Len(thr[t].tokens)].bound

\* C21: in every chain, a resolution without an id yields the session bound
\* by the innermost workspace_context that chain has open (the default
\* session when it has none), and the value the chain reads from the
\* binding is the one its own scopes set, whatever the other chain has
\* entered or left in between.
C21_ChainsSeeOwnBinding ==
    \A t \in Threads :
        /\ (thr[t].pc = "done" /\ thr[t].op = "ensure_session")
              => thr[t].ret = ChainId(t)
        /\ Bound(t) = IF thr[t].tokens = <<>> THEN NoId ELSE ChainId(t)

\* C21 witness: both chains are inside workspace_context, on different
\* ids, and one of them has resolved its own session without an id
C21_Witness ==
    \E t, u \in Threads :
        /\ thr[t].tokens # <<>> /\ thr[u].tokens # <<>>
        /\ ChainId(t) = OtherId
        /\ ChainId(u) = "a"
        /\ thr[u].pc = "done" /\ thr[u].op = "workspace_context"
        /\ thr[t].pc = "done" /\ thr[t].op = "ensure_session"
        /\ thr[t].ret = OtherId


----------------------------------------------------------------------------
(* Properties of the agent tools *)

\* C26: a write_file or read_file tool call made inside
\* workspace_context(X) works on a path under session X's root, and
\* list_files lists only files under that root.
C26_ToolsUseBoundSession ==
    (pc = "returned" /\ last.op \in {"write_file", "read_file", "list_files"}
       /\ last.out.err = "" /\ active # NoId)
    => IsPrefix(SessionPath(active), last.out.path)


----------------------------------------------------------------------------
(* Properties of the listings and the archive *)

\* at one level: every directory node before every file node, and within
\* each kind the names in case-insensitive order
LevelOrdered(nodes) ==
    \A i, j \in 1..Len(nodes) :
        i < j =>
            /\ nodes[i].type = "file" => nodes[j].type = "file"
            /\ nodes[i].type = nodes[j].type =>
                   Rank(Lower(nodes[i].name)) <= Rank(Lower(nodes[j].name))

\* the level and every level below it are ordered, and every node has the
\* keys of its kind and the path of its place
RECURSIVE TreeWellFormed(_, _)
TreeWellFormed(nodes, at) ==
    /\ LevelOrdered(nodes)
    /\ \A i \in 1..Len(nodes) :
          /\ nodes[i].path = at \o <<nodes[i].name>>
          /\ IF nodes[i].type = "file"
             THEN DOMAIN nodes[i] = {"name", "path", "type", "size"}
             ELSE /\ nodes[i].type = "directory"
                  /\ DOMAIN nodes[i] = {"name", "path", "type", "children"}
                  /\ TreeWellFormed(nodes[i].children, nodes[i].path)

\* what a tree says of the disk: the path, kind and size of every node
RECURSIVE TreeItems(_)
TreeItems(nodes) ==
    UNION { IF nodes[i].type = "file"
            THEN {<<nodes[i].path, "file", nodes[i].size>>}
            ELSE {<<nodes[i].path, "dir", 0>>} \cup TreeItems(nodes[i].children)
            : i \in 1..Len(nodes) }

\* the same of the disk below root
DiskItems(f, root) ==
    { <<RelativePath(q, root), f[q].kind,
        IF f[q].kind = "file" THEN Len(f[q].bytes) + f[q].fill ELSE 0>> :
        q \in { x \in DOMAIN f : x # root /\ IsPrefix(root, x) } }

\* C22: the tree list_tree returns holds exactly the entries below the
\* session root, every level with its directories before its files and each
\* kind in case-insensitive name order; a file node has a size and no
\* children, a directory node children and no size, and every node's path
\* is its path from the root.
C22_ListTree ==
    (Returned("list_tree") /\ last.out.err = "")
    => /\ TreeWellFormed(last.out.ret, <<>>)
       /\ TreeItems(last.out.ret) = DiskItems(fs, CallRoot)

\* C22 witness: a listing of a root holding the directories a and B and the
\* files A and b came back in that order, a with its file below it
C22_Witness ==
    /\ Returned("list_tree")
    /\ last.out.err = ""
    /\ Len(last.out.ret) = 4
    /\ last.out.ret[1].name = "a" /\ last.out.ret[1].type = "directory"
    /\ Len(last.out.ret[1].children) = 1
    /\ last.out.ret[2].name = "B" /\ last.out.ret[2].type = "directory"
    /\ last.out.ret[3].name = "A" /\ last.out.ret[3].type = "file"
    /\ last.out.ret[4].name = "b" /\ last.out.ret[4].type = "file"


\* the regular files below root, as paths from the root
RegularFiles(f, root) ==
    { RelativePath(q, root) :
        q \in { x \in DOMAIN f : x # root /\ IsPrefix(root, x) /\ IsFile(f, x) } }

\* how many times x occurs in the sequence s
Occurrences(s, x) == Cardinality({ i \in 1..Len(s) : s[i] = x })

\* C23: list_flat_text_files returns without raising, and every regular
\* file below the session root is in exactly one of its two results: in
\* the content map with its decoded content when its bytes are valid UTF-8,
\* once in the skipped list when they are not; neither result names
\* anything else.
C23_ListFlatTextFiles ==
    Returned("list_flat_text_files") =>
        /\ last.out.err = ""
        /\ \A rel \in RegularFiles(fs, CallRoot) :
              IF ValidUtf8(fs[CallRoot \o rel].bytes)
              THEN /\ rel \in DOMAIN last.out.files
                   /\ last.out.files[rel].text = Decode(fs[CallRoot \o rel].bytes)
                   /\ last.out.files[rel].fill = fs[CallRoot \o rel].fill
                   /\ Occurrences(last.out.ret, rel) = 0
              ELSE /\ rel \notin DOMAIN last.out.files
                   /\ Occurrences(last.out.ret, rel) = 1
        /\ DOMAIN last.out.files \subseteq RegularFiles(fs, CallRoot)
        /\ \A i \in 1..Len(last.out.ret) : last.out.ret[i] \in RegularFiles(fs, CallRoot)

\* C23 witness: a session holding text files and a file that is not UTF-8
\* was listed: the text files are in the map, the other one is skipped
C23_Witness ==
    /\ Returned("list_flat_text_files")
    /\ last.out.err = ""
    /\ last.out.ret = << <<"b">> >>
    /\ DOMAIN last.out.files = {<<"A">>, <<"a", "a">>}


\* C25: the archive build_workspace_zip writes has exactly one entry per
\* regular file below the session root, named by the file's path from the
\* root and holding its bytes, the entries in ascending order of path: it
\* is a function of the files below the root, so two calls with no write
\* between them give the same archive.
C25_BuildWorkspaceZip ==
    (Returned("build_workspace_zip") /\ last.out.err = "")
    => LET entries == last.out.files
       IN /\ { entries[i].arcname : i \in 1..Len(entries) } = RegularFiles(fs, CallRoot)
          /\ Len(entries) = Cardinality(RegularFiles(fs, CallRoot))
          /\ \A i \in 1..Len(entries) :
                /\ entries[i].bytes = fs[CallRoot \o entries[i].arcname].bytes
                /\ entries[i].fill = fs[CallRoot \o entries[i].arcname].fill
          /\ \A i, j \in 1..Len(entries) :
                i < j => PathLess(entries[i].arcname, entries[j].arcname)

\* C25 witness: the archive of a root holding A, a/a and b has three
\* entries, in that order
C25_Witness ==
    /\ Returned("build_workspace_zip")
    /\ last.out.err = ""
    /\ Len(last.out.files) = 3
    /\ last.out.files[1].arcname = <<"A">>
    /\ last.out.files[2].arcname = <<"a", "a">>
    /\ last.out.files[3].arcname = <<"b">>


\* C25 as stated: called again on a registered session with no write since,
\* build_workspace_zip gives the archive of the files that were below the
\* root when the call began, hence the archive the call before it gave.
C25_SameArchiveWithoutWrites ==
    (Returned("build_workspace_zip") /\ last.out.err = ""
       /\ CallId \in DOMAIN last.pre.sessions)
    => { last.out.files[i].arcname : i \in 1..Len(last.out.files) }
          = RegularFiles(last.pre.fs, CallRoot)

\* C24 as stated: read_text_file of a registered session leaves the tree
\* under the session root as it was before the call.
C24_ReadChangesNothing ==
    (Returned("read_text_file") /\ CallId \in DOMAIN last.pre.sessions) =>
        Subtree(fs, CallRoot) = Subtree(last.pre.fs, CallRoot)

\* C24: read_text_file changes nothing on the disk its session resolution
\* left (the root created if missing, expired sessions swept); on a path
\* the Path Guard accepts it raises FileNotFoundError when nothing or no
\* regular file is there, WorkspaceBinaryFileError when the file's bytes
\* are not valid UTF-8, and returns the decoded content otherwise.
C24_ReadTextFile ==
    Returned("read_text_file") =>
        /\ fs = Entered
        /\ PathsAccepted =>
              LET target == Lands(last.path)
              IN IF ~IsFile(Entered, target) THEN last.out.err = "NotFound"
                 ELSE IF ~ValidUtf8(Entered[target].bytes) THEN last.out.err = "Binary"
                 ELSE /\ last.out.err = ""
                      /\ last.out.text.text = Decode(Entered[target].bytes)
                      /\ last.out.text.fill = Entered[target].fill

\* C24 witness: a read of a file whose bytes are not UTF-8 raised
\* WorkspaceBinaryFileError and left the file as it was
C24_Witness ==
    /\ Returned("read_text_file")
    /\ last.out.err = "Binary"
    /\ Lands(last.path) = WORKSPACE_ROOT \o <<"b">>
    /\ fs[WORKSPACE_ROOT \o <<"b">>].bytes = <<"FF">>

====
